---- MODULE Spec2Model ----
(***************************************************************************)
(* Model of the NSE member backup bot (src/nse_backup_bot.py): login,      *)
(* segment access check, path discovery, per-file download with the        *)
(* download ledger (table bot_file_downloads) and the date-partitioned     *)
(* directory layout, and the all-segments orchestration.                   *)
(***************************************************************************)
EXTENDS Integers, Sequences, FiniteSets, TLC

VARIABLES
    session_token,        \* bot.session_token; "" stands for None
    auth_header,          \* session.headers['Authorization']; "" when not installed
    ledger,               \* rows of bot_file_downloads, in insertion order
    disk,                 \* files under base_download_dir: set of [dir, name, content]
    dirs,                 \* directories created under base_download_dir
    remote,               \* the extranet: per segment its access answer and its folder
    now,                  \* the wall clock date, <<year, month, day>>
    faults,               \* transient failures injected so far
    runs,                 \* invocations of download_all_segments started so far
    pc,                   \* position of the single pipeline thread
    segments,             \* download_all_segments: the requested segments
    access_status,        \* check_segment_access: segment -> bool, built in probe order
    response,             \* check_segment_access: the response being examined
    accessible_segments,  \* download_all_segments: the segments with access
    seg_i,                \* download_all_segments: index into accessible_segments
    overall_results,      \* download_all_segments: the result being aggregated
    segment,              \* download_segment_files: its segment
    path_i,               \* get_file_list: index into possible_paths
    files,                \* download_segment_files: the processed file list
    file_i,               \* download_segment_files: index of the next file
    successful_downloads, \* download_segment_files: counter
    failed_downloads,     \* download_segment_files: counter
    total_size,           \* download_segment_files: bytes fetched
    seg_result,           \* the value returned by download_segment_files
    last,                 \* the latest download_file call: its arguments and outcome
    requests,             \* network requests issued since download_all_segments began
    reported,             \* <<segment, file_id>> of the calls reported successful in this run
    previous,             \* the same, of the run before this one
    entry,                \* the bot method the caller invoked: "all", "segment" or ""
    login_returned,       \* what login() has returned since the latest pipeline call
                          \* began: "true", "false", or "" (not called)
    probed,               \* the candidates get_file_list has probed in this call
    dated,                \* the latest direct call of get_file_date_directory
    gui,                  \* the GUI process: its scheduler, its flags, its threads
    sched,                \* the bot of nse_scheduler.py and its run_backup in progress
    scheduler_downloads,  \* table scheduler_downloads, the rows in insertion order
    settings,             \* table settings of the GUI's database, and its latest calls
    download_url          \* the latest download URL built: the filename and its date parameter

vars == <<session_token, auth_header, ledger, disk, dirs, remote, now, faults, runs,
          pc, segments, access_status, response, accessible_segments, seg_i,
          overall_results, segment, path_i, files, file_i, successful_downloads,
          failed_downloads, total_size, seg_result, last, requests, reported,
          previous, entry, login_returned, probed, dated, gui, sched,
          scheduler_downloads, settings,
          download_url>>

-----------------------------------------------------------------------------
(* Bounds of the model. *)

MaxRuns == 2
MaxFaults == 1

-----------------------------------------------------------------------------
(* Python values as they arrive in a JSON body: None, a string, an         *)
(* integer, or a list ("list1": one string element, "list1int": one        *)
(* integer element, "list0": empty).  v is the text of the scalar or of    *)
(* the single element.                                                     *)

PyNone == [t |-> "none", v |-> ""]
PyStr(s) == [t |-> "str", v |-> s]
PyInt(s) == [t |-> "int", v |-> s]
PyList1(s) == [t |-> "list1", v |-> s]
PyList1Int(s) == [t |-> "list1int", v |-> s]
PyList0 == [t |-> "list0", v |-> ""]

\* Python truthiness
Truthy(x) ==
    CASE x.t = "none" -> FALSE
      [] x.t = "str" -> x.v # ""
      [] x.t = "int" -> x.v # "0"
      [] x.t = "list0" -> FALSE
      [] OTHER -> TRUE

\* a or b
PyOr(a, b) == IF Truthy(a) THEN a ELSE b

\* Variant: only the scalar form, code == 'c'.
CodeIs_scalar(code, c) == code.t = "str" /\ code.v = c

\* code == 'c' or code == ['c']
CodeIs(code, c) ==
    \/ (code.t = "str" /\ code.v = c)
    \/ (code.t = "list1" /\ code.v = c)

\* An HTTP exchange: it raised (transport error, undecodable body), or it
\* returned a status and a JSON body with these keys (absent key: None).
Raised == [exc |-> TRUE, http |-> 0, code |-> PyNone, responseCode |-> PyNone,
           status |-> PyNone, token |-> PyNone, data |-> <<>>]
Resp(http, code, responseCode, status, token, data) ==
    [exc |-> FALSE, http |-> http, code |-> code, responseCode |-> responseCode,
     status |-> status, token |-> token, data |-> data]
\* No exchange under examination.
NoResponse == Resp(0, PyNone, PyNone, PyNone, PyNone, <<>>)

-----------------------------------------------------------------------------
(* Strings *)

Char(s, i) == SubSeq(s, i, i)
endswith(s, suf) ==
    Len(s) >= Len(suf) /\ SubSeq(s, Len(s) - Len(suf) + 1, Len(s)) = suf
Contains(s, c) == \E i \in 1..Len(s) : Char(s, i) = c
Digits == {"0", "1", "2", "3", "4", "5", "6", "7", "8", "9"}
Letters == {"a", "b", "c", "d", "e", "f", "g", "h", "i", "j", "k", "l", "m",
            "n", "o", "p", "q", "r", "s", "t", "u", "v", "w", "x", "y", "z",
            "A", "B", "C", "D", "E", "F", "G", "H", "I", "J", "K", "L", "M",
            "N", "O", "P", "Q", "R", "S", "T", "U", "V", "W", "X", "Y", "Z"}
WordChars == Digits \cup Letters \cup {"_"}
IsDigit(c) == c \in Digits
IsWord(c) == c \in WordChars
AllDigits(s, a, b) == \A k \in a..b : IsDigit(Char(s, k))
AllWord(s, a, b) == \A k \in a..b : IsWord(Char(s, k))
LitAt(s, i, lit) == i >= 1 /\ i + Len(lit) - 1 <= Len(s) /\ SubSeq(s, i, i + Len(lit) - 1) = lit
DigitStr == <<"0", "1", "2", "3", "4", "5", "6", "7", "8", "9">>
Pad2(n) == DigitStr[((n \div 10) % 10) + 1] \o DigitStr[(n % 10) + 1]
Str4(n) == Pad2(n \div 100) \o Pad2(n % 100)
Min(S) == CHOOSE x \in S : \A y \in S : x <= y
Max(S) == CHOOSE x \in S : \A y \in S : x >= y

-----------------------------------------------------------------------------
(* Directory Organizer: get_file_date_directory *)

\* pattern1 = r'Trade_NSE_\w+_\d+_TM_\d+_(\d{8})_': i is where the match
\* starts, a, b, c are where \w+ and the two \d+ end; the group is at
\* c+2..c+9.
P1Starts(s) == {i \in 1..Len(s) : LitAt(s, i, "Trade_NSE_")}
P1WordEnds(s, i) ==
    {a \in (i + 10)..Len(s) : AllWord(s, i + 10, a) /\ LitAt(s, a + 1, "_")}
P1NumEnds(s, a) ==
    {b \in (a + 2)..Len(s) : AllDigits(s, a + 2, b) /\ LitAt(s, b + 1, "_TM_")}
P1GroupAt(s, b) ==
    {c \in (b + 5)..Len(s) :
        /\ AllDigits(s, b + 5, c)
        /\ LitAt(s, c + 1, "_")
        /\ c + 10 <= Len(s)
        /\ AllDigits(s, c + 2, c + 9)
        /\ LitAt(s, c + 10, "_")}
P1From(s, i) ==
    {m \in UNION {UNION {{<<a, b, c>> : c \in P1GroupAt(s, b)} :
                            b \in P1NumEnds(s, a)} : a \in P1WordEnds(s, i)} : TRUE}
\* re.search: the leftmost start, then the longest \w+, the longest \d+ ...
\* (greedy, backtracking); "" when there is no match.
P1Greedy(M) ==
    LET a == Max({m[1] : m \in M})
        b == Max({m[2] : m \in {x \in M : x[1] = a}})
    IN Max({m[3] : m \in {x \in M : x[1] = a /\ x[2] = b}})
P1Group(s, c) == SubSeq(s, c + 2, c + 9)
P1Match(s, I) == IF I = {} THEN "" ELSE P1Group(s, P1Greedy(P1From(s, Min(I))))
match1(s) == P1Match(s, {i \in P1Starts(s) : P1From(s, i) # {}})

\* pattern2 = r'_ORD_LOG_(\d{8})_'
P2Starts(s) ==
    {i \in 1..Len(s) :
        /\ LitAt(s, i, "_ORD_LOG_")
        /\ i + 17 <= Len(s)
        /\ AllDigits(s, i + 9, i + 16)
        /\ LitAt(s, i + 17, "_")}
P2Group(s, i) == SubSeq(s, i + 9, i + 16)
P2Match(s, I) == IF I = {} THEN "" ELSE P2Group(s, Min(I))
match2(s) == P2Match(s, P2Starts(s))

month_names(m) ==
    CASE m = "01" -> "Jan" [] m = "02" -> "Feb" [] m = "03" -> "Mar"
      [] m = "04" -> "Apr" [] m = "05" -> "May" [] m = "06" -> "Jun"
      [] m = "07" -> "Jul" [] m = "08" -> "Aug" [] m = "09" -> "Sep"
      [] m = "10" -> "Oct" [] m = "11" -> "Nov" [] m = "12" -> "Dec"
      [] OTHER -> m

\* Variant: the order-log pattern is tried first.
date_parts_order_first(m1, m2, clock) ==
    IF m2 # "" THEN <<SubSeq(m2, 5, 8), SubSeq(m2, 3, 4), SubSeq(m2, 1, 2)>>
    ELSE IF m1 # "" THEN <<SubSeq(m1, 1, 4), SubSeq(m1, 5, 6), SubSeq(m1, 7, 8)>>
    ELSE <<Str4(clock[1]), Pad2(clock[2]), Pad2(clock[3])>>

\* The date taken from the filename, lines 583-611: <<year, month, day>> as
\* texts; without a match the clock's date, zero-padded.
date_parts(m1, m2, clock) ==
    IF m1 # "" THEN <<SubSeq(m1, 1, 4), SubSeq(m1, 5, 6), SubSeq(m1, 7, 8)>>
    ELSE IF m2 # "" THEN <<SubSeq(m2, 5, 8), SubSeq(m2, 3, 4), SubSeq(m2, 1, 2)>>
    ELSE <<Str4(clock[1]), Pad2(clock[2]), Pad2(clock[3])>>
extract_date(filename, clock) == date_parts(match1(filename), match2(filename), clock)

\* The files the extranet publishes in this model, and the clock's dates.
TradeFile == "Trade_NSE_CM_0_TM_06471_20240115_F_0000.csv.gz"
OrdLogFile == "FO_ORD_LOG_15012024_06471.CSV.gz"
PlainFile == "contract_master.txt"
Clock == {<<2024, 3, 7>>}

\* The directory base_download_dir / segment / year / month_name / day, as
\* the sequence of its components below base_download_dir (lines 613-625).
date_directory(seg, d) == <<seg, d[1], month_names(d[2]), d[3]>>
get_file_date_directory(seg, filename, clock) ==
    date_directory(seg, extract_date(filename, clock))

\* Path.mkdir(parents=True, exist_ok=True)
mkdir(D, path) == D \cup {SubSeq(path, 1, k) : k \in 1..Len(path)}

\* Filenames a listing may carry, each with the pattern its text shows
\* ("trade", "order" or "none") and the eight digits that follow it.
DateInput(name, kind, digits) == [name |-> name, kind |-> kind, digits |-> digits]
DateInputs ==
    {DateInput(TradeFile, "trade", "20240115"),
     DateInput("CM_ORD_LOG_15012024_06471.CSV.gz", "order", "15012024"),
     DateInput(OrdLogFile, "order", "15012024"),
     DateInput(PlainFile, "none", ""),
     DateInput("Trade_NSE_FO_0_TM_06471_20231231_ORD_LOG_01022024_F.csv", "trade", "20231231"),
     DateInput("Trade_NSE_CM_0_TM_06471_19991101_F_0000.csv.gz", "trade", "19991101"),
     DateInput("SLB_ORD_LOG_29022024_06471.CSV.gz", "order", "29022024"),
     DateInput("x_Trade_NSE_CM_EQ_12_TM_7_20240930_", "trade", "20240930"),
     DateInput("Trade_NSE_CM_0_TM_06471_202401155_F.csv", "none", ""),
     DateInput("trade_nse_cm_0_tm_06471_20240115_f.csv", "none", ""),
     DateInput("CM_ORD_LOG_1501202_06471.CSV.gz", "none", ""),
     DateInput("Trade_NSE_CM_0_TM_06471_20241315_F_0000.csv.gz", "trade", "20241315"),
     DateInput("FO_ORD_LOG_15002024_06471.CSV.gz", "order", "15002024")}
DateSegments == {"CM", "FO", "CD", "CO", "SLB"}
DateClocks == {<<2024, 3, 7>>, <<2025, 12, 31>>}
NoDated == [called |-> FALSE, segment |-> "", input |-> DateInput("", "none", ""),
            clock |-> <<0, 0, 0>>, path |-> <<>>]

-----------------------------------------------------------------------------
(* Download Engine: the date parameter of the download URL *)

\* int(s) for a text of decimal digits
digit(c) == CHOOSE k \in 0..9 : DigitStr[k + 1] = c
RECURSIVE int(_)
int(s) == IF s = "" THEN 0 ELSE 10 * int(SubSeq(s, 1, Len(s) - 1)) + digit(Char(s, Len(s)))

\* re.search(r'(\d{8})', file_name), line 679: the leftmost eight
\* consecutive digits, "" when there are none.
search_digits8(file_name) ==
    LET I == {i \in 1..(Len(file_name) - 7) : AllDigits(file_name, i, i + 7)} IN
    IF I = {} THEN "" ELSE SubSeq(file_name, Min(I), Min(I) + 7)

\* Variant: the YYYYMMDD reading is tried first.
date_str_year_first(date_part) ==
    IF date_part = "" THEN ""
    ELSE IF int(SubSeq(date_part, 1, 4)) >= 2000
    THEN SubSeq(date_part, 7, 8) \o "-" \o SubSeq(date_part, 5, 6) \o "-"
            \o SubSeq(date_part, 1, 4)
    ELSE IF int(SubSeq(date_part, 1, 2)) <= 31 /\ int(SubSeq(date_part, 3, 4)) <= 12
    THEN SubSeq(date_part, 1, 2) \o "-" \o SubSeq(date_part, 3, 4) \o "-"
            \o SubSeq(date_part, 5, 8)
    ELSE ""

\* Lines 680-687: date_str for the digits found ("": date_str stays None and
\* line 706 adds no date parameter).
date_str(date_part) ==
    IF date_part = "" THEN ""
    ELSE IF int(SubSeq(date_part, 1, 2)) <= 31 /\ int(SubSeq(date_part, 3, 4)) <= 12
    THEN SubSeq(date_part, 1, 2) \o "-" \o SubSeq(date_part, 3, 4) \o "-"
            \o SubSeq(date_part, 5, 8)
    ELSE IF int(SubSeq(date_part, 1, 4)) >= 2000
    THEN SubSeq(date_part, 7, 8) \o "-" \o SubSeq(date_part, 5, 6) \o "-"
            \o SubSeq(date_part, 1, 4)
    ELSE ""

\* Filenames a listing may carry, each with the first eight consecutive
\* digits its text shows ("": it has none).
UrlInput(name, digits) == [name |-> name, digits |-> digits]
UrlInputs ==
    {UrlInput(TradeFile, "20240115"),
     UrlInput(OrdLogFile, "15012024"),
     UrlInput(PlainFile, ""),
     UrlInput("Trade_NSE_CM_0_TM_06471_20120115_F_0000.csv.gz", "20120115"),
     UrlInput("Trade_NSE_FO_0_TM_06471_20231231_ORD_LOG_01022024_F.csv", "20231231"),
     UrlInput("Trade_NSE_CM_0_TM_06471_19991301_F_0000.csv.gz", "19991301"),
     UrlInput("Trade_NSE_CM_0_TM_06471_202401155_F.csv", "20240115"),
     UrlInput("CM_ORD_LOG_1501202_06471.CSV.gz", ""),
     UrlInput("report_32139999.txt", "32139999"),
     UrlInput("report_00002024.txt", "00002024"),
     UrlInput("report_31122024.txt", "31122024"),
     UrlInput("report_32012024.txt", "32012024"),
     UrlInput("1234567890123.csv", "12345678")}
NoUrl == [built |-> FALSE, segment |-> "", input |-> UrlInput("", ""), date |-> ""]

-----------------------------------------------------------------------------
(* Path Discovery and File Catalog Fetcher: get_file_list *)

member_code == "06471"

possible_paths(seg) ==
    <<"/Onlinebackup", "/", "/" \o member_code \o "/Onlinebackup", "/" \o member_code>>
    \o (CASE seg = "FO" -> <<"/faoftp/F" \o member_code \o "/Onlinebackup",
                             "/faoftp/F" \o member_code, "/faoftp">>
          [] seg = "CM" -> <<"/cmftp/" \o member_code \o "/Onlinebackup",
                             "/cmftp/" \o member_code, "/cmftp">>
          [] seg = "SLB" -> <<"/slbftp/S" \o member_code \o "/Onlinebackup",
                              "/slbftp/S" \o member_code, "/slbftp">>
          [] OTHER -> <<>>)

\* An entry of a listing's 'data': a dict with the keys type, fileName and
\* name (absent: None), or a bare string (text).
DictItem(type, fileName, name) ==
    [kind |-> "dict", type |-> type, fileName |-> fileName, name |-> name, text |-> ""]
StrItem(text) ==
    [kind |-> "str", type |-> PyNone, fileName |-> PyNone, name |-> PyNone, text |-> text]

\* The record built for one entry, as a sequence of zero or one records.
\* Variant: the records are not tagged with the candidate they came from.
process_item_untagged(f, folder_path) ==
    IF f.kind = "dict"
    THEN IF ~(f.type.t = "str" /\ f.type.v = "Folder")
         THEN LET filename == PyOr(f.fileName, IF f.name.t = "none" THEN PyStr("") ELSE f.name) IN
              IF Truthy(filename)
                 /\ (\/ endswith(filename.v, ".gz") \/ endswith(filename.v, ".csv")
                     \/ endswith(filename.v, ".txt") \/ Contains(filename.v, "."))
              THEN <<[name |-> filename.v, id |-> filename.v, folderPath |-> "/"]>>
              ELSE <<>>
         ELSE <<>>
    ELSE IF Contains(f.text, ".")
         THEN <<[name |-> f.text, id |-> f.text, folderPath |-> "/"]>>
         ELSE <<>>

process_item(f, folder_path) ==
    IF f.kind = "dict"
    THEN IF ~(f.type.t = "str" /\ f.type.v = "Folder")
         THEN LET filename == PyOr(f.fileName, IF f.name.t = "none" THEN PyStr("") ELSE f.name) IN
              IF Truthy(filename)
                 /\ (\/ endswith(filename.v, ".gz") \/ endswith(filename.v, ".csv")
                     \/ endswith(filename.v, ".txt") \/ Contains(filename.v, "."))
              THEN <<[name |-> filename.v, id |-> filename.v, folderPath |-> folder_path]>>
              ELSE <<>>
         ELSE <<>>
    ELSE IF Contains(f.text, ".")
         THEN <<[name |-> f.text, id |-> f.text, folderPath |-> folder_path]>>
         ELSE <<>>

RECURSIVE process_files(_, _)
process_files(data, folder_path) ==
    IF data = <<>> THEN <<>>
    ELSE process_item(Head(data), folder_path) \o process_files(Tail(data), folder_path)

\* What one pass of the candidate loop does with the answer for folder_path:
\* "raise" (the except clause returns []), "hit" with the records, or "next".
probe_path(resp, folder_path) ==
    IF resp.exc THEN [kind |-> "raise", files |-> <<>>]
    ELSE IF resp.http = 200
    THEN LET code == PyOr(resp.code, resp.responseCode) IN
         IF CodeIs(code, "601") \/ (resp.status.t = "str" /\ resp.status.v = "success")
         THEN LET processed_files == process_files(resp.data, folder_path) IN
              IF processed_files # <<>>
              THEN [kind |-> "hit", files |-> processed_files]
              ELSE [kind |-> "next", files |-> <<>>]
         ELSE [kind |-> "next", files |-> <<>>]
    ELSE [kind |-> "next", files |-> <<>>]

-----------------------------------------------------------------------------
(* Download Ledger: is_file_downloaded, record_download *)

\* db is "ok", or "error" when sqlite raises: the except clause returns False.
is_file_downloaded(L, file_id, seg, db) ==
    IF db = "error" THEN FALSE
    ELSE \E k \in 1..Len(L) : L[k].file_id = file_id /\ L[k].segment = seg

\* Variant: INSERT OR REPLACE keyed by (file_id, segment).
record_download_replacing(L, file_id, file_name, seg, file_path, file_size, checksum, today, db) ==
    IF db = "error" THEN L
    ELSE Append(SelectSeq(L, LAMBDA r : ~(r.file_id = file_id /\ r.segment = seg)),
                [file_id |-> file_id, file_name |-> file_name, segment |-> seg,
                 download_date |-> today, file_path |-> file_path,
                 file_size |-> file_size, checksum |-> checksum])

\* db "error": the except clause logs and returns.
record_download(L, file_id, file_name, seg, file_path, file_size, checksum, today, db) ==
    IF db = "error" THEN L
    ELSE Append(L, [file_id |-> file_id, file_name |-> file_name, segment |-> seg,
                    download_date |-> today, file_path |-> file_path,
                    file_size |-> file_size, checksum |-> checksum])

\* hashlib.sha256 over the file's content; "" when reading it raises.
calculate_file_checksum(content, io) ==
    IF io = "fail" THEN "" ELSE "sha256:" \o content

-----------------------------------------------------------------------------
(* The filesystem below base_download_dir *)

NoPath == [dir |-> <<>>, name |-> ""]
fs_write(D, dir, name, content) ==
    {e \in D : ~(e.dir = dir /\ e.name = name)}
        \cup {[dir |-> dir, name |-> name, content |-> content]}
fs_unlink(D, dir, name) == {e \in D : ~(e.dir = dir /\ e.name = name)}
fs_content(D, dir, name) ==
    (CHOOSE e \in D : e.dir = dir /\ e.name = name).content
fs_rename(D, dir, from, to) ==
    fs_write(fs_unlink(D, dir, from), dir, to, fs_content(D, dir, from))
fs_exists(D, dir, name) == \E e \in D : e.dir = dir /\ e.name = name

-----------------------------------------------------------------------------
(* Download Engine: download_file *)


\* The bytes a download of file_name streams.
content_length(file_name) ==
    CASE file_name = TradeFile -> 5
      [] file_name = OrdLogFile -> 3
      [] OTHER -> 2

\* What the environment does to one download_file call.  Each field is "ok"
\* or the way that step fails:
\*   lookup   is_file_downloaded's query          "error"
\*   mkdir    creating the target directory        "fail"
\*   http     the file-download request            "raise" | "status" (not 200)
\*   write    streaming the body into {name}.tmp   "fail"
\*   gunzip   gzip read / decompressed write       "bad" | "write_fail"
\*   rename   temp_path.rename(final_path)         "fail"
\*   unlink   temp_path.unlink()                   "fail"
\*   checksum reading the final file               "fail"
\*   record   record_download's insert             "error"
EnvFields == {"lookup", "mkdir", "http", "write", "gunzip", "rename", "unlink",
              "checksum", "record"}
EnvValues(f) ==
    CASE f = "lookup" -> {"ok", "error"}
      [] f = "mkdir" -> {"ok", "fail"}
      [] f = "http" -> {"ok", "raise", "status"}
      [] f = "write" -> {"ok", "fail"}
      [] f = "gunzip" -> {"ok", "bad", "write_fail"}
      [] f = "rename" -> {"ok", "fail"}
      [] f = "unlink" -> {"ok", "fail"}
      [] f = "checksum" -> {"ok", "fail"}
      [] f = "record" -> {"ok", "error"}
NominalEnv == [f \in EnvFields |-> "ok"]
FaultCount(env) == Cardinality({f \in EnvFields : env[f] # "ok"})

\* The dict download_file returns.  status is "" where the dict has no
\* 'status' key, file_path is NoPath where it has no 'file_path' key.
FailedResult(file_name, error) ==
    [success |-> FALSE, file_name |-> file_name, status |-> "", size |-> 0,
     file_path |-> NoPath, checksum |-> "", error |-> error]
SkippedResult(file_name) ==
    [success |-> TRUE, file_name |-> file_name, status |-> "already_downloaded",
     size |-> 0, file_path |-> NoPath, checksum |-> "", error |-> ""]
DownloadedResult(file_name, file_path, size, checksum) ==
    [success |-> TRUE, file_name |-> file_name, status |-> "", size |-> size,
     file_path |-> file_path, checksum |-> checksum, error |-> ""]

\* What a call leaves behind: the returned dict, the ledger, the disk, the
\* directories, whether the download request was issued, how often
\* record_download was invoked, and which fields of env it consulted.
Outcome(result, L, D, DR, fetched, record_calls, consulted) ==
    [result |-> result, ledger |-> L, disk |-> D, dirs |-> DR, fetched |-> fetched,
     record_calls |-> record_calls, consulted |-> consulted]

\* Variant: the success dict without the call of record_download.
finish_download_unrecorded(file_info, seg, env, L, D, DR, dir, final_name, consulted, today) ==
    Outcome(DownloadedResult(file_info.name, [dir |-> dir, name |-> final_name],
                             content_length(file_info.name),
                             calculate_file_checksum(fs_content(D, dir, final_name),
                                                     env.checksum)),
            L, D, DR, TRUE, 0, consulted \cup {"checksum", "record"})

\* Variant: an exception of the ledger insert is not swallowed by
\* record_download and becomes the call's failure.
finish_download_failing(file_info, seg, env, L, D, DR, dir, final_name, consulted, today) ==
    IF env.record = "error"
    THEN Outcome(FailedResult(file_info.name, "Download exception"), L, D, DR, TRUE, 1,
                 consulted \cup {"checksum", "record"})
    ELSE Outcome(DownloadedResult(file_info.name, [dir |-> dir, name |-> final_name],
                                  content_length(file_info.name),
                                  calculate_file_checksum(fs_content(D, dir, final_name),
                                                          env.checksum)),
                 record_download(L, file_info.id, file_info.name, seg,
                                 [dir |-> dir, name |-> final_name],
                                 content_length(file_info.name),
                                 calculate_file_checksum(fs_content(D, dir, final_name),
                                                         env.checksum),
                                 today, "ok"),
                 D, DR, TRUE, 1, consulted \cup {"checksum", "record"})

\* Lines 767-781: checksum of final_path, record_download, the success dict.
finish_download(file_info, seg, env, L, D, DR, dir, final_name, consulted, today) ==
    LET checksum == calculate_file_checksum(fs_content(D, dir, final_name), env.checksum)
        final_path == [dir |-> dir, name |-> final_name]
        size == content_length(file_info.name)
    IN Outcome(DownloadedResult(file_info.name, final_path, size, checksum),
               record_download(L, file_info.id, file_info.name, seg, final_path, size,
                               checksum, today, env.record),
               D, DR, TRUE, 1, consulted \cup {"checksum", "record"})

\* Variant: the inner except clause re-raises (line 790) and no outer except
\* clause turns the exception into a result; the call ends "raised".
cleanup_and_fail_escaping(file_info, env, L, D, DR, dir, consulted) ==
    LET tmp == file_info.name \o ".tmp" IN
    Outcome([FailedResult(file_info.name, "") EXCEPT !.status = "raised"], L,
            IF fs_exists(D, dir, tmp) /\ env.unlink = "ok" THEN fs_unlink(D, dir, tmp) ELSE D,
            DR, TRUE, 0, consulted \cup {"unlink"})

\* Lines 783-790 and 813-821: the temp file is unlinked if it exists
\* (best effort) and the exception becomes a failed result.
cleanup_and_fail(file_info, env, L, D, DR, dir, consulted) ==
    LET tmp == file_info.name \o ".tmp" IN
    IF fs_exists(D, dir, tmp)
    THEN Outcome(FailedResult(file_info.name, "Download exception"), L,
                 IF env.unlink = "ok" THEN fs_unlink(D, dir, tmp) ELSE D,
                 DR, TRUE, 0, consulted \cup {"unlink"})
    ELSE Outcome(FailedResult(file_info.name, "Download exception"), L, D, DR, TRUE, 0,
                 consulted)

\* Variant: a body that cannot be decompressed is discarded and the call
\* fails.
materialize_discarding(file_info, seg, env, L, D, DR, dir, consulted, today) ==
    IF endswith(file_info.name, ".gz") /\ env.gunzip = "ok"
    THEN finish_download(file_info, seg, env, L,
                         fs_unlink(fs_write(D, dir, SubSeq(file_info.name, 1,
                                                           Len(file_info.name) - 3),
                                            "decompressed"),
                                   dir, file_info.name \o ".tmp"),
                         DR, dir, SubSeq(file_info.name, 1, Len(file_info.name) - 3),
                         consulted \cup {"gunzip", "unlink"}, today)
    ELSE IF endswith(file_info.name, ".gz")
    THEN cleanup_and_fail(file_info, env, L, D, DR, dir, consulted \cup {"gunzip"})
    ELSE finish_download(file_info, seg, env, L,
                         fs_rename(D, dir, file_info.name \o ".tmp", file_info.name),
                         DR, dir, file_info.name, consulted \cup {"rename"}, today)

\* Lines 735-765: the body is in {name}.tmp (disk D); decompress or rename.
materialize(file_info, seg, env, L, D, DR, dir, consulted, today) ==
    LET file_name == file_info.name
        tmp == file_name \o ".tmp"
        decompressed_filename == SubSeq(file_name, 1, Len(file_name) - 3)
    IN
    IF endswith(file_name, ".gz") /\ env.gunzip = "ok"
    THEN \* decompressed sibling written, temp file unlinked (errors ignored)
         LET D1 == fs_write(D, dir, decompressed_filename, "decompressed")
             D2 == IF env.unlink = "ok" THEN fs_unlink(D1, dir, tmp) ELSE D1
         IN finish_download(file_info, seg, env, L, D2, DR, dir, decompressed_filename,
                            consulted \cup {"gunzip", "unlink"}, today)
    ELSE \* not .gz, or the inner except clause: rename temp to final
         LET D1 == IF endswith(file_name, ".gz") /\ env.gunzip = "write_fail"
                   THEN fs_write(D, dir, decompressed_filename, "partial")
                   ELSE D
             c1 == consulted \cup (IF endswith(file_name, ".gz") THEN {"gunzip"} ELSE {})
                             \cup {"rename"}
         IN IF env.rename = "ok"
            THEN finish_download(file_info, seg, env, L, fs_rename(D1, dir, tmp, file_name),
                                 DR, dir, file_name, c1, today)
            ELSE cleanup_and_fail(file_info, env, L, D1, DR, dir, c1)

\* Lines 651-733, with target_dir the directory of line 659.
download_to(file_info, seg, env, L, D, DR, target_dir, today) ==
    LET file_name == file_info.name
        file_id == file_info.id
        DR1 == mkdir(DR, target_dir)
        tmp == file_name \o ".tmp"
    IN
    IF file_name = ""
    THEN Outcome(FailedResult("unknown", "Invalid file info"), L, D, DR, FALSE, 0, {})
    ELSE IF env.mkdir = "fail"
    THEN Outcome(FailedResult(file_name, "Download exception"), L, D, DR, FALSE, 0,
                 {"mkdir"})
    ELSE IF is_file_downloaded(L, file_id, seg, env.lookup)
    THEN Outcome(SkippedResult(file_name), L, D, DR1, FALSE, 0, {"mkdir", "lookup"})
    ELSE IF env.http = "raise"
    THEN Outcome(FailedResult(file_name, "Download exception"), L, D, DR1, TRUE, 0,
                 {"mkdir", "lookup", "http"})
    ELSE IF env.http = "status"
    THEN Outcome(FailedResult(file_name, "Download failed: HTTP"), L, D, DR1, TRUE, 0,
                 {"mkdir", "lookup", "http"})
    ELSE IF env.write = "fail"
    THEN cleanup_and_fail(file_info, env, L, fs_write(D, target_dir, tmp, "partial"),
                          DR1, target_dir, {"mkdir", "lookup", "http", "write"})
    ELSE materialize(file_info, seg, env, L, fs_write(D, target_dir, tmp, "bytes"),
                     DR1, target_dir, {"mkdir", "lookup", "http", "write"}, today)

download_file(file_info, seg, env, L, D, DR, today) ==
    download_to(file_info, seg, env, L, D, DR,
                get_file_date_directory(seg, file_info.name, today), today)

-----------------------------------------------------------------------------
(* Auth Component: login, and the access check *)

\* Lines 227-258: the token a login response yields, "" when login fails.
login_token(resp) ==
    IF resp.exc THEN ""
    ELSE IF resp.http = 200
    THEN LET code == PyOr(resp.code, resp.responseCode) IN
         IF CodeIs(code, "601") /\ Truthy(resp.token) THEN resp.token.v
         ELSE IF resp.status.t = "str" /\ resp.status.v = "success" /\ Truthy(resp.token)
         THEN resp.token.v
         ELSE ""
    ELSE ""

\* Lines 282: the segments check_segment_access probes, in order.
AccessSegments == <<"CM", "FO", "CD", "CO", "SLB">>

\* Lines 297-320: the access status one probe's answer gives its segment.
segment_access(resp) ==
    IF resp.exc THEN FALSE
    ELSE IF resp.http = 200
    THEN LET code == PyOr(resp.code, resp.responseCode) IN
         IF CodeIs(code, "720") THEN FALSE
         ELSE IF CodeIs(code, "704") THEN FALSE
         ELSE IF CodeIs(code, "601") THEN TRUE
         ELSE FALSE
    ELSE FALSE

\* access_status.get(seg, False)
access_get(status, seg) == IF seg \in DOMAIN status THEN status[seg] ELSE FALSE

-----------------------------------------------------------------------------
(* The environment: the extranet, the clock, the requested segments *)

Ok601(data) == Resp(200, PyStr("601"), PyNone, PyNone, PyNone, data)
NotFound == Resp(404, PyNone, PyNone, PyNone, PyNone, <<>>)
ServerError == Resp(500, PyNone, PyNone, PyNone, PyNone, <<>>)

\* A segment of the extranet: what its root listing answers to the access
\* check, the folder that holds its files ("" when none), and that folder's
\* listing.
Denied(code) == [access |-> Resp(200, code, PyNone, PyNone, PyNone, <<>>),
                 folder |-> "", data |-> <<>>]
Granted(folder, data) == [access |-> Ok601(<<>>), folder |-> folder, data |-> data]
Stocked(seg) ==
    CASE seg = "CM" ->
            Granted("/Onlinebackup",
                    <<DictItem(PyStr("File"), PyStr(TradeFile), PyNone),
                      DictItem(PyStr("Folder"), PyNone, PyStr("Archive")),
                      DictItem(PyNone, PyNone, PyStr(PlainFile))>>)
      [] seg = "FO" ->
            Granted("/faoftp/F" \o member_code \o "/Onlinebackup",
                    <<DictItem(PyStr("File"), PyStr(OrdLogFile), PyNone)>>)
      [] OTHER ->
            Granted("/" \o member_code, <<StrItem(PlainFile), StrItem("README")>>)
SegmentStates(seg) ==
    IF seg \in {"CD", "CO"} THEN {Denied(PyStr("704"))}
    ELSE {Denied(PyList1("720")), Granted("", <<>>), Stocked(seg)}
RemoteStates ==
    {r \in [{"CM", "FO", "CD", "CO", "SLB"} ->
                UNION {SegmentStates(s) : s \in {"CM", "FO", "CD", "CO", "SLB"}}] :
        \A s \in DOMAIN r : r[s] \in SegmentStates(s)}

\* The answer of the content-list endpoint for folder_path of seg.
listing_response(R, seg, folder_path) ==
    IF R[seg].folder = folder_path THEN Ok601(R[seg].data)
    ELSE IF folder_path = "/"
    THEN Resp(200, PyList1("601"), PyNone, PyNone, PyNone,
              <<DictItem(PyStr("Folder"), PyNone, PyStr("Onlinebackup"))>>)
    ELSE NotFound

LoginResponses ==
    {Resp(200, PyStr("601"), PyNone, PyNone, PyStr("tok"), <<>>),
     Resp(200, PyNone, PyList1("601"), PyNone, PyStr("tok"), <<>>),
     Resp(200, PyNone, PyNone, PyStr("success"), PyStr("tok"), <<>>),
     Resp(200, PyStr("601"), PyNone, PyNone, PyNone, <<>>),
     Resp(200, PyNone, PyNone, PyStr("success"), PyNone, <<>>),
     Resp(200, PyStr("602"), PyNone, PyStr("failed"), PyNone, <<>>),
     Resp(401, PyNone, PyNone, PyNone, PyNone, <<>>),
     Raised}

SegmentChoices == {<<"CM", "FO", "SLB">>, <<"SLB", "CM">>}

\* The environments of a download_file call with at most k failures.
AllEnvs ==
    {[lookup |-> a, mkdir |-> b, http |-> c, write |-> d, gunzip |-> e, rename |-> f,
      unlink |-> g, checksum |-> h, record |-> i] :
        a \in EnvValues("lookup"), b \in EnvValues("mkdir"), c \in EnvValues("http"),
        d \in EnvValues("write"), e \in EnvValues("gunzip"), f \in EnvValues("rename"),
        g \in EnvValues("unlink"), h \in EnvValues("checksum"), i \in EnvValues("record")}
EnvsWithin == [k \in 0..MaxFaults |-> {e \in AllEnvs : FaultCount(e) <= k}]

-----------------------------------------------------------------------------
(* Result values *)

\* The dict download_segment_files returns, and the dicts stored in
\* segment_results; a key the dict does not have holds "" or 0.
SegmentResult(success, error, files_downloaded, files_failed, total_size_mb) ==
    [success |-> success, error |-> error, files_downloaded |-> files_downloaded,
     files_failed |-> files_failed, total_size_mb |-> total_size_mb]

\* The dict download_all_segments returns.  total_size_mb is kept in bytes
\* (the code divides the byte count by 1024 * 1024).
OverallResults(success, completed, failed, files_downloaded, files_failed, size, results) ==
    [success |-> success, segments_completed |-> completed, segments_failed |-> failed,
     total_files_downloaded |-> files_downloaded, total_files_failed |-> files_failed,
     total_size_mb |-> size, segment_results |-> results]

NoResults == OverallResults(FALSE, 0, 0, 0, 0, 0, <<>>)
NoSegmentResult == SegmentResult(FALSE, "", 0, 0, 0)
NoCall == [file_name |-> "", file_id |-> "", segment |-> "", had_entry |-> FALSE,
           env |-> NominalEnv, result |-> FailedResult("", ""), fetched |-> FALSE,
           record_calls |-> 0, appended |-> 0, wrote |-> FALSE, made_dirs |-> FALSE]

\* {seg: value for seg in segs}, later keys overriding earlier ones
RECURSIVE dict_of(_, _)
dict_of(segs, value) ==
    IF segs = <<>> THEN <<>>
    ELSE (Head(segs) :> value) @@ dict_of(Tail(segs), value)

\* d[key] = value
dict_set(d, key, value) == (key :> value) @@ d

InSeq(x, sq) == \E k \in 1..Len(sq) : sq[k] = x

-----------------------------------------------------------------------------
(* The bot of nse_scheduler.py (class NSEMemberBackupBot, lines 462-839) *)

\* Config.SEGMENTS, line 62
SEGMENTS == <<"CM", "FO", "SLB">>

\* str(x) inside an f-string
PyFormat(x) == IF x.t = "none" THEN "None" ELSE x.v

\* Lines 554-571: what login() returns for a response.
scheduler_login(resp) ==
    IF resp.exc THEN FALSE
    ELSE IF resp.http = 200
    THEN resp.status.t = "str" /\ resp.status.v = "success"
    ELSE FALSE

\* Lines 598-611: the list get_file_list returns.  answered is FALSE when the
\* request raises, the status is not 200 or the body's status is not
\* 'success'; listed is the 'files' list of the body.
scheduler_file_list(answered, listed) == IF answered THEN listed ELSE <<>>

\* The 'files' the content endpoint lists for a segment: the file items of
\* the segment's folder, each with its id and name.
listed_files(R, seg) == process_files(R[seg].data, R[seg].folder)

\* DatabaseManager.log_download, lines 197-218: a plain INSERT; db "error":
\* the except clause logs and returns.
log_download(T, file_id, file_name, seg, db) ==
    IF db = "error" THEN T
    ELSE Append(T, [file_id |-> file_id, file_name |-> file_name, segment |-> seg])

\* A bot as __init__ leaves it (lines 465-476), no run_backup in progress.
\* fetched: the files a download request was issued for in this run_backup;
\* written: the files under Config.DOWNLOAD_DIR.
NoSchedulerBot ==
    [pc |-> "idle", session_token |-> PyNone, auth_header |-> "", login_returned |-> "",
     seg_i |-> 0, files |-> <<>>, file_i |-> 0, successful_downloads |-> 0,
     failed_downloads |-> 0, total_downloaded |-> 0, total_failed |-> 0,
     success |-> FALSE, error |-> "", fetched |-> {}, written |-> {}]

-----------------------------------------------------------------------------
(* The GUI process of nse_datasync_gui.py: ProfessionalScheduler (lines      *)
(* 634-750) and NSEDataSyncProGUI.execute_download (lines 1544-1712)         *)

\* The threads that call execute_download: the scheduler's job worker and
\* the threads the manual handlers start.
ManualThreads == {"manual1", "manual2"}
Threads == {"worker"} \cup ManualThreads

\* The process after NSEDataSyncProGUI.__init__ (lines 907-910) and
\* ProfessionalScheduler.__init__ (lines 637-644).  job_scheduled and
\* midnight_scheduled: the two jobs of the schedule module; thread: where
\* each thread is in execute_download ("none": no such thread, "guard":
\* before line 1546, "passed": between line 1546 and line 1550, "pipeline":
\* after line 1550, "returned": the job worker after its callback, line
\* 705); dropped: a trigger has been refused; cycles: the worker
\* has finished a cycle since start_scheduler; invoked: the threads that have
\* been started; run_history: the number of rows of the run_history table
\* (lines 140-155) written on behalf of each thread's latest invocation.
\* A stop_scheduler call of the GUI thread: where it is ("none": no call,
\* "waiting": in the loop of lines 743-744, "teardown": before line 746,
\* "joining": at line 750, "returned"), its argument, whether it entered the
\* waiting loop and whether the loop ended by the timeout.
NoStop == [pc |-> "none", wait_for_cycle |-> FALSE, waited |-> FALSE, timed_out |-> FALSE]

\* An execute_download call that has passed the guard: where it is ("none",
\* "login", "loop": between two segments, "segment": inside
\* download_segment_files, "returned"), the selected segments and the index
\* of the next one, the locals total_files and errors (their number), the
\* number of segments whose result was a success, the 'success' value of the
\* returned dict ("": not returned), the status of the session row written,
\* and the ledger rows and the disk at the time the segment loop ended.
NoRun ==
    [pc |-> "none", selected |-> <<>>, i |-> 0, total_files |-> 0, errors |-> 0,
     completed |-> 0, success |-> "", status |-> "", recorded |-> <<>>, before |-> {}]

\* The dicts execute_download returns (lines 1548, 1675-1680 and 1706), by
\* their keys, their 'success' value and their 'message'; NoDict: none yet.
\* callback is the dict the job worker's callback returned, row_status the
\* status of the session row the job worker wrote.
NoDict == [keys |-> {}, success |-> FALSE, message |-> ""]
InProgressDict ==
    [keys |-> {"success", "message"}, success |-> FALSE,
     message |-> "Download already in progress"]
CompletedDict ==
    [keys |-> {"success", "files_downloaded", "total_size_mb", "errors"},
     success |-> TRUE, message |-> ""]
FailedDict ==
    [keys |-> {"success", "message"}, success |-> FALSE, message |-> "Download failed"]

NoGui ==
    [is_running |-> FALSE, stop_requested |-> FALSE, cycle_in_progress |-> FALSE,
     is_download_running |-> FALSE, job_scheduled |-> FALSE,
     midnight_scheduled |-> FALSE, thread |-> [t \in Threads |-> "none"],
     dropped |-> FALSE, cycles |-> FALSE, invoked |-> {},
     run_history |-> [t \in Threads |-> 0],
     timer |-> "none", stop |-> NoStop, run |-> NoRun,
     callback |-> NoDict, row_status |-> ""]

\* EnhancedDatabaseManager.log_download_session, lines 490-514, on behalf of
\* thread t: one INSERT INTO run_history (the table has no uniqueness
\* constraint on session_id, lines 140-155).
log_download_session(g, t) ==
    [g EXCEPT !.run_history[t] = @ + 1]

\* threading.Thread(target=...).start() for thread t: a new invocation.
start_thread(g, t) ==
    [g EXCEPT !.thread[t] = "guard", !.invoked = @ \cup {t}, !.run_history[t] = 0]

-----------------------------------------------------------------------------
(* The settings table of EnhancedDatabaseManager (nse_datasync_gui.py)      *)

SettingKeys == {"interval_minutes", "test_consolidation"}
SettingValues == {PyStr("30"), PyStr("success"), PyInt("30")}
SettingCategories == {"general", "test"}

\* No row for the key / no call yet
NoRow == [value |-> [t |-> "absent", v |-> ""], category |-> ""]
NoValue == [t |-> "unset", v |-> ""]

\* Column `value TEXT`, line 132: a number bound to the column is stored as
\* its text; text and NULL are stored as they are.
text_affinity(x) == IF x.t = "int" THEN PyStr(x.v) ELSE x

\* init_defaults, lines 440-463: the rows present when the application
\* starts (one of them is kept here).
init_defaults ==
    [k \in SettingKeys |->
        IF k = "interval_minutes"
        THEN [value |-> PyStr("60"), category |-> "scheduler"]
        ELSE NoRow]

\* set_setting(key, value, category), lines 477-488: INSERT OR REPLACE of
\* the key's row; an exception of the store is logged and dropped.
set_setting(table, key, value, category, raised) ==
    IF raised THEN table
    ELSE [table EXCEPT ![key] = [value |-> text_affinity(value), category |-> category]]

\* get_setting(key, default), lines 465-475.
get_setting(table, key, default, raised) ==
    IF raised THEN default
    ELSE IF table[key] = NoRow THEN default
    ELSE table[key].value

\* table: the rows by key; written: the value the latest set_setting call
\* was given for each key; set_raised: whether that call's statement
\* raised; got: the latest get_setting call and what it returned.
NoSettings ==
    [table |-> init_defaults,
     written |-> [k \in SettingKeys |-> NoValue],
     set_raised |-> [k \in SettingKeys |-> FALSE],
     got |-> [key |-> "", value |-> NoValue, raised |-> FALSE]]

-----------------------------------------------------------------------------
(* The pipeline *)

Init ==
    /\ session_token = ""
    /\ auth_header = ""
    /\ ledger = <<>>
    /\ disk = {}
    /\ dirs = {<<>>}
    /\ remote \in RemoteStates
    /\ now \in Clock
    /\ faults = 0
    /\ runs = 0
    /\ pc = "idle"
    /\ segments = <<>>
    /\ access_status = <<>>
    /\ response = NoResponse
    /\ accessible_segments = <<>>
    /\ seg_i = 0
    /\ overall_results = NoResults
    /\ segment = ""
    /\ path_i = 0
    /\ files = <<>>
    /\ file_i = 0
    /\ successful_downloads = 0
    /\ failed_downloads = 0
    /\ total_size = 0
    /\ seg_result = NoSegmentResult
    /\ last = NoCall
    /\ requests = {}
    /\ reported = {}
    /\ previous = {}
    /\ entry = ""
    /\ login_returned = ""
    /\ probed = <<>>
    /\ dated = NoDated
    /\ gui = NoGui
    /\ sched = NoSchedulerBot
    /\ scheduler_downloads = <<>>
    /\ settings = NoSettings
    /\ download_url = NoUrl

store == <<ledger, disk, dirs>>
\* What no step of the bot's pipeline touches: the extranet, the clock, the
\* direct calls of its helpers and the other programs.
world == <<remote, now, dated, gui, sched, scheduler_downloads, settings,
          download_url>>
all_frame == <<segments, access_status, response, accessible_segments, seg_i,
               overall_results>>
seg_frame == <<segment, path_i, files, file_i, successful_downloads, failed_downloads,
               total_size, seg_result>>
call == <<entry, login_returned>>

Request_anonymous(kind, seg) == [kind |-> kind, segment |-> seg, bearer |-> ""]
Request(kind, seg) == [kind |-> kind, segment |-> seg, bearer |-> session_token]

\* login(), called by the entry point before the pipeline (main, line 1204).
\* A failed login leaves the token and the header as they were.
Login ==
    /\ pc = "idle"
    /\ \E resp \in LoginResponses :
        LET token == login_token(resp) IN
        /\ session_token' = IF token # "" THEN token ELSE session_token
        /\ auth_header' = IF token # "" THEN "Bearer " \o token ELSE auth_header
        /\ login_returned' = IF token # "" THEN "true" ELSE "false"
    /\ UNCHANGED <<store, world, faults, runs, pc, all_frame, seg_frame, last, requests,
                   reported, previous, entry, probed>>

\* download_all_segments(segs), lines 957-965, and check_segment_access,
\* lines 266-280: without a token the access status stays empty.
DownloadAllSegments ==
    /\ pc = "idle"
    /\ runs < MaxRuns
    /\ \E segs \in SegmentChoices : segments' = segs
    /\ runs' = runs + 1
    /\ access_status' = <<>>
    /\ requests' = {}
    /\ last' = NoCall
    /\ previous' = reported
    /\ reported' = {}
    /\ pc' = IF session_token = "" THEN "partition" ELSE "access"
    /\ entry' = "all"
    /\ login_returned' = ""
    /\ UNCHANGED <<session_token, auth_header, store, world, faults, response,
                   accessible_segments, seg_i, overall_results, seg_frame, probed>>

\* download_segment_files(seg) called on its own, as the GUI's download loop
\* does for each selected segment (nse_datasync_gui.py, line 1500).
DownloadSegmentFiles ==
    /\ pc = "idle"
    /\ runs < MaxRuns
    /\ \E seg \in {"CM", "FO", "SLB"} :
        /\ segments' = <<seg>>
        /\ accessible_segments' = <<seg>>
    /\ seg_i' = 1
    /\ runs' = runs + 1
    /\ entry' = "segment"
    /\ requests' = {}
    /\ last' = NoCall
    /\ previous' = reported
    /\ reported' = {}
    /\ pc' = "segment"
    /\ login_returned' = ""
    /\ UNCHANGED <<session_token, auth_header, store, world, faults, access_status,
                   response, overall_results, seg_frame, probed>>

\* One pass of the loop of check_segment_access, lines 282-320, with the
\* answer resp to the root listing of the next segment.
CheckSegmentAccess(resp, cost) ==
    LET seg == AccessSegments[Cardinality(DOMAIN access_status) + 1] IN
    /\ pc = "access"
    /\ faults + cost <= MaxFaults
    /\ faults' = faults + cost
    /\ response' = resp
    /\ access_status' = dict_set(access_status, seg, segment_access(resp))
    /\ requests' = requests \cup {Request("access", seg)}
    /\ pc' = IF Cardinality(DOMAIN access_status) + 1 = Len(AccessSegments)
             THEN "partition" ELSE "access"
    /\ UNCHANGED <<session_token, auth_header, store, world, runs, segments,
                   accessible_segments, seg_i, overall_results, seg_frame, last,
                   reported, previous, call, probed>>

AccessAnswered ==
    /\ pc = "access"
    /\ CheckSegmentAccess(
           remote[AccessSegments[Cardinality(DOMAIN access_status) + 1]].access, 0)

AccessRaised ==
    /\ pc = "access"
    /\ CheckSegmentAccess(Raised, 1)

\* Lines 968-980: the result when no requested segment is accessible.
no_access_results(segs) ==
    OverallResults(FALSE, 0, Len(segs), 0, 0, 0,
                   dict_of(segs, SegmentResult(FALSE, "No access", 0, 0, 0)))

\* Variant: inaccessible segments are left out of the result.
mark_inaccessible_omitting(segs, accessible, results) == results

\* Lines 984-1001: the initial result, inaccessible segments marked failed.
RECURSIVE mark_inaccessible(_, _, _)
mark_inaccessible(segs, accessible, results) ==
    IF segs = <<>> THEN results
    ELSE IF ~InSeq(Head(segs), accessible)
    THEN mark_inaccessible(Tail(segs), accessible,
            [results EXCEPT
                !.segments_failed = @ + 1,
                !.segment_results = dict_set(@, Head(segs),
                    SegmentResult(FALSE, "No access to segment", 0, 0, 0))])
    ELSE mark_inaccessible(Tail(segs), accessible, results)

\* check_segment_access returns (lines 322-329); download_all_segments
\* filters the segments, lines 968-1001.
Partition ==
    /\ pc = "partition"
    /\ LET accessible == SelectSeq(segments, LAMBDA s : access_get(access_status, s)) IN
        /\ accessible_segments' = accessible
        /\ IF accessible = <<>>
           THEN /\ overall_results' = no_access_results(segments)
                /\ seg_i' = 0
                /\ pc' = "done"
           ELSE /\ overall_results' =
                      mark_inaccessible(segments, accessible,
                                        OverallResults(TRUE, 0, 0, 0, 0, 0, <<>>))
                /\ seg_i' = 1
                /\ pc' = "segment"
    /\ response' = NoResponse
    /\ UNCHANGED <<session_token, auth_header, store, world, faults, runs, segments,
                   access_status, seg_frame, last, requests, reported, previous, call,
                   probed>>

\* download_segment_files(segment), lines 851-873: log in if there is no
\* token, create the segment's base directory, start get_file_list.
SegmentStart ==
    /\ pc = "segment"
    /\ segment' = accessible_segments[seg_i]
    /\ \E resp \in (IF session_token = "" THEN LoginResponses ELSE {NoResponse}) :
        LET token == IF session_token = "" THEN login_token(resp) ELSE session_token IN
        /\ session_token' = token
        /\ auth_header' = IF session_token = "" /\ token # ""
                          THEN "Bearer " \o token ELSE auth_header
        /\ login_returned' = IF session_token # "" THEN login_returned
                             ELSE IF token # "" THEN "true" ELSE "false"
        /\ IF token = ""
           THEN /\ seg_result' = SegmentResult(FALSE, "Login failed", 0, 0, 0)
                /\ pc' = "collect"
                /\ path_i' = 0
                /\ dirs' = dirs
           ELSE /\ seg_result' = NoSegmentResult
                /\ pc' = "probe"
                /\ path_i' = 1
                /\ dirs' = mkdir(dirs, <<accessible_segments[seg_i]>>)
    /\ files' = <<>>
    /\ file_i' = 0
    /\ successful_downloads' = 0
    /\ failed_downloads' = 0
    /\ total_size' = 0
    /\ probed' = <<>>
    /\ UNCHANGED <<ledger, disk, world, faults, runs, all_frame, last, requests,
                   reported, previous, entry>>

\* One pass of the candidate loop of get_file_list, lines 483-566, with the
\* answer resp for the candidate; on a hit download_segment_files goes on
\* to its file loop (lines 884-894), on exhaustion or an exception it
\* returns 'No files found' (lines 875-882).
ProbePath(resp, cost) ==
    LET folder_path == possible_paths(segment)[path_i]
        out == probe_path(resp, folder_path)
    IN
    /\ pc = "probe"
    /\ faults + cost <= MaxFaults
    /\ faults' = faults + cost
    /\ requests' = requests \cup {Request("list", segment)}
    /\ probed' = Append(probed, [path |-> folder_path, resp |-> resp])
    /\ IF out.kind = "hit"
       THEN /\ files' = out.files
            /\ file_i' = 1
            /\ path_i' = 0
            /\ seg_result' = seg_result
            /\ pc' = "files"
       ELSE IF out.kind = "next" /\ path_i < Len(possible_paths(segment))
       THEN /\ path_i' = path_i + 1
            /\ UNCHANGED <<files, file_i, seg_result, pc>>
       ELSE /\ seg_result' = SegmentResult(FALSE, "No files found", 0, 0, 0)
            /\ path_i' = 0
            /\ pc' = "collect"
            /\ UNCHANGED <<files, file_i>>
    /\ UNCHANGED <<session_token, auth_header, store, world, runs, all_frame, segment,
                   successful_downloads, failed_downloads, total_size, last, reported,
                   previous, call>>

ProbeAnswered ==
    /\ pc = "probe"
    /\ ProbePath(listing_response(remote, segment, possible_paths(segment)[path_i]), 0)

ProbeFailed ==
    /\ pc = "probe"
    /\ \E resp \in {Raised, ServerError} : ProbePath(resp, 1)

\* One pass of the file loop of download_segment_files, lines 896-925:
\* download_file and the counters.
\* Variant: the loop is left at the first failed file.
next_file_aborting(i, n, result) == IF result.success THEN i + 1 ELSE n + 1

\* Lines 886-924: `for idx, file_info in enumerate(files, 1)` goes on to the
\* next file of the n listed, whatever download_file returned for file i.
next_file(i, n, result) == i + 1

DownloadStep ==
    /\ pc = "files"
    /\ file_i <= Len(files)
    /\ \E env \in EnvsWithin[MaxFaults - faults] :
        \E o \in {download_file(files[file_i], segment, env, ledger, disk, dirs, now)} :
        /\ \A f \in EnvFields : env[f] # "ok" => f \in o.consulted
        /\ faults' = faults + FaultCount(env)
        /\ ledger' = o.ledger
        /\ disk' = o.disk
        /\ dirs' = o.dirs
        /\ last' = [file_name |-> files[file_i].name, file_id |-> files[file_i].id,
                    segment |-> segment,
                    had_entry |-> is_file_downloaded(ledger, files[file_i].id, segment, "ok"),
                    env |-> env, result |-> o.result, fetched |-> o.fetched,
                    record_calls |-> o.record_calls,
                    appended |-> Len(o.ledger) - Len(ledger),
                    wrote |-> "write" \in o.consulted,
                    made_dirs |-> o.dirs # dirs]
        /\ reported' = IF o.result.success
                       THEN reported \cup {<<segment, files[file_i].id>>} ELSE reported
        /\ requests' = requests \cup
                (IF o.fetched THEN {Request("download", segment)} ELSE {})
        /\ IF o.result.success
           THEN /\ successful_downloads' = successful_downloads + 1
                /\ total_size' = IF o.result.status # "already_downloaded"
                                 THEN total_size + o.result.size ELSE total_size
                /\ failed_downloads' = failed_downloads
           ELSE /\ failed_downloads' = failed_downloads + 1
                /\ UNCHANGED <<successful_downloads, total_size>>
        /\ file_i' = next_file(file_i, Len(files), o.result)
    /\ UNCHANGED <<session_token, auth_header, world, runs, pc, all_frame, segment,
                   path_i, files, seg_result, previous, call, probed>>

\* Lines 927-944: download_segment_files returns its counts.
SegmentReturn ==
    /\ pc = "files"
    /\ file_i > Len(files)
    /\ seg_result' = SegmentResult(TRUE, "", successful_downloads, failed_downloads,
                                   total_size)
    /\ pc' = "collect"
    /\ probed' = <<>>
    /\ UNCHANGED <<session_token, auth_header, store, world, faults, runs, all_frame,
                   segment, path_i, files, file_i, successful_downloads,
                   failed_downloads, total_size, last, requests, reported, previous,
                   call>>

\* Variant: the totals are assigned (=) where the code accumulates (+=).
collect_result_assigning(results, seg, result) ==
    LET stored == [results EXCEPT !.segment_results = dict_set(@, seg, result)] IN
    IF result.success
    THEN [stored EXCEPT
            !.segments_completed = @ + 1,
            !.total_files_downloaded = result.files_downloaded,
            !.total_files_failed = result.files_failed,
            !.total_size_mb = result.total_size_mb]
    ELSE [stored EXCEPT !.segments_failed = @ + 1]

\* Lines 1006-1015: the segment's result goes into overall_results.
collect_result(results, seg, result) ==
    LET stored == [results EXCEPT !.segment_results = dict_set(@, seg, result)] IN
    IF result.success
    THEN [stored EXCEPT
            !.segments_completed = @ + 1,
            !.total_files_downloaded = @ + result.files_downloaded,
            !.total_files_failed = @ + result.files_failed,
            !.total_size_mb = @ + result.total_size_mb]
    ELSE [stored EXCEPT !.segments_failed = @ + 1]

Collect ==
    /\ pc = "collect"
    /\ entry = "all"
    /\ overall_results' = collect_result(overall_results, segment, seg_result)
    /\ seg_i' = seg_i + 1
    /\ pc' = IF seg_i = Len(accessible_segments) THEN "finish" ELSE "segment"
    /\ probed' = <<>>
    /\ UNCHANGED <<session_token, auth_header, store, world, faults, runs, segments,
                   access_status, response, accessible_segments, seg_frame, last,
                   requests, reported, previous, call>>

\* download_segment_files returns to a caller other than download_all_segments
\* (nse_datasync_gui.py, line 1500).
SegmentReturned ==
    /\ pc = "collect"
    /\ entry = "segment"
    /\ pc' = "returned"
    /\ probed' = <<>>
    /\ UNCHANGED <<session_token, auth_header, store, world, faults, runs, all_frame,
                   seg_frame, last, requests, reported, previous, call>>

\* Variant: success only when no segment failed.
overall_success_strict(results) == results.segments_failed = 0

\* Line 1026
overall_success(results) == results.segments_completed > 0

\* Lines 1025-1032: download_all_segments returns overall_results.
Finish ==
    /\ pc = "finish"
    /\ overall_results' = [overall_results EXCEPT !.success = overall_success(overall_results)]
    /\ pc' = "done"
    /\ UNCHANGED <<session_token, auth_header, store, world, faults, runs, segments,
                   access_status, response, accessible_segments, seg_i, seg_frame, last,
                   requests, reported, previous, call, probed>>

\* The caller has the result; the next invocation is made by the same bot
\* or, in a new process, by a newly constructed one (lines 59-76: no token).
Exit ==
    /\ pc \in {"done", "returned"}
    /\ pc' = "idle"
    /\ \E fresh \in BOOLEAN :
        /\ session_token' = IF fresh THEN "" ELSE session_token
        /\ auth_header' = IF fresh THEN "" ELSE auth_header
        /\ login_returned' = IF fresh THEN "" ELSE login_returned
    /\ entry' = ""
    /\ probed' = <<>>
    /\ segments' = <<>>
    /\ access_status' = <<>>
    /\ accessible_segments' = <<>>
    /\ seg_i' = 0
    /\ overall_results' = NoResults
    /\ segment' = ""
    /\ path_i' = 0
    /\ files' = <<>>
    /\ file_i' = 0
    /\ successful_downloads' = 0
    /\ failed_downloads' = 0
    /\ total_size' = 0
    /\ seg_result' = NoSegmentResult
    /\ last' = NoCall
    /\ requests' = {}
    /\ UNCHANGED <<store, world, faults, runs, response, reported, previous>>

Next ==
    \/ Login
    \/ DownloadAllSegments
    \/ AccessAnswered
    \/ AccessRaised
    \/ Partition
    \/ SegmentStart
    \/ ProbeAnswered
    \/ ProbeFailed
    \/ DownloadStep
    \/ SegmentReturn
    \/ Collect
    \/ Finish
    \/ Exit

Spec == Init /\ [][Next]_vars

-----------------------------------------------------------------------------
(* The access check against every shape of answer *)

\* The values the keys 'code' and 'responseCode' of a root listing take.
AccessCodes ==
    {PyNone, PyList0,
     PyStr("720"), PyList1("720"), PyStr("704"), PyList1("704"),
     PyStr("601"), PyList1("601"), PyStr("999"), PyList1("999"),
     PyInt("601"), PyList1Int("601")}
AccessResponses ==
    {Resp(200, c, r, PyNone, PyNone, <<>>) : c \in AccessCodes, r \in AccessCodes}
        \cup {Resp(h, c, PyNone, PyNone, PyNone, <<>>) :
                h \in {403, 500}, c \in {PyStr("601"), PyList1("601")}}
        \cup {Raised}

\* The extranet with every segment stocked.
InitAccess == Init /\ \A s \in {"CM", "FO", "SLB"} : remote[s] = Stocked(s)

\* One pass of the loop of check_segment_access with any answer.
AccessProbed ==
    /\ pc = "access"
    /\ \E resp \in AccessResponses : CheckSegmentAccess(resp, 0)

NextAccess ==
    \/ Login
    \/ DownloadAllSegments
    \/ AccessProbed
    \/ AccessRaised
    \/ Partition
    \/ Exit

SpecAccess == InitAccess /\ [][NextAccess]_vars

-----------------------------------------------------------------------------
(* Both ways into the pipeline: download_all_segments and download_segment_files *)

\* The extranet with FO stocked and SLB closed; CM in any of its states.
InitCalls ==
    Init /\ remote["FO"] = Stocked("FO") /\ remote["SLB"] = Denied(PyList1("720"))

NextCalls ==
    \/ Login
    \/ DownloadAllSegments
    \/ DownloadSegmentFiles
    \/ AccessAnswered
    \/ AccessRaised
    \/ Partition
    \/ SegmentStart
    \/ ProbeAnswered
    \/ ProbeFailed
    \/ DownloadStep
    \/ SegmentReturn
    \/ Collect
    \/ SegmentReturned
    \/ Finish
    \/ Exit

SpecCalls == InitCalls /\ [][NextCalls]_vars

-----------------------------------------------------------------------------
(* The entry points one after another: the command line of nse_backup_bot.py *)
(* and the scheduled job of nse_scheduler.py                                  *)

\* EnhancedBackupScheduler.run_backup_job, lines 857-880, makes a new bot and
\* calls run_backup (lines 763-788): login(), and on failure the result
\* {'success': False, 'error': 'Login failed'}.
RunBackup ==
    /\ pc = "idle"
    /\ sched.pc = "idle"
    /\ runs < MaxRuns
    /\ runs' = runs + 1
    /\ \E resp \in LoginResponses :
        sched' = IF scheduler_login(resp)
                 THEN [NoSchedulerBot EXCEPT
                          !.session_token = resp.token,
                          !.auth_header = "Bearer " \o PyFormat(resp.token),
                          !.login_returned = "true",
                          !.written = sched.written,
                          !.seg_i = 1,
                          !.pc = "segment"]
                 ELSE [NoSchedulerBot EXCEPT
                          !.login_returned = "false",
                          !.written = sched.written,
                          !.error = "Login failed",
                          !.pc = "finished"]
    /\ UNCHANGED <<session_token, auth_header, store, remote, now, dated, gui, settings,
                   download_url,
                   scheduler_downloads,
                   faults, pc, all_frame, seg_frame, last, requests, reported, previous,
                   call, probed>>

\* download_segment(segment), lines 710-725, for the next of Config.SEGMENTS
\* (run_backup, lines 793-795): get_file_list, 'No files found' when empty.
DownloadSegment ==
    /\ sched.pc = "segment"
    /\ \E answered \in BOOLEAN :
        LET fl == scheduler_file_list(answered, listed_files(remote, SEGMENTS[sched.seg_i]))
        IN
        sched' = IF fl = <<>>
                 THEN [sched EXCEPT
                          !.files = <<>>, !.file_i = 0,
                          !.seg_i = IF @ = Len(SEGMENTS) THEN @ ELSE @ + 1,
                          !.pc = IF sched.seg_i = Len(SEGMENTS) THEN "complete" ELSE "segment"]
                 ELSE [sched EXCEPT
                          !.files = fl, !.file_i = 1,
                          !.successful_downloads = 0, !.failed_downloads = 0,
                          !.pc = "files"]
    /\ UNCHANGED <<session_token, auth_header, store, remote, now, dated, gui, settings,
                   download_url,
                   scheduler_downloads,
                   faults, runs, pc, all_frame, seg_frame, last, requests, reported,
                   previous, call, probed>>

\* download_file(file_info, segment), lines 616-696, for the next file of the
\* loop of download_segment (lines 730-739): the download request, the body
\* written to DOWNLOAD_DIR/segment/file_name, log_download.  http is "ok",
\* "status" (not 200) or "raise".
SchedulerDownloadFile ==
    /\ sched.pc = "files"
    /\ \E http \in {"ok", "status", "raise"}, db \in {"ok", "error"} :
        LET file_info == sched.files[sched.file_i]
            seg == SEGMENTS[sched.seg_i]
            ok == http = "ok"
            more == sched.file_i < Len(sched.files)
            good == sched.successful_downloads + (IF ok THEN 1 ELSE 0)
            bad == sched.failed_downloads + (IF ok THEN 0 ELSE 1)
        IN
        /\ (http # "ok" => db = "ok")
        /\ scheduler_downloads' =
                IF ok THEN log_download(scheduler_downloads, file_info.id, file_info.name,
                                        seg, db)
                ELSE scheduler_downloads
        /\ sched' = [sched EXCEPT
                        !.fetched = @ \cup {[segment |-> seg, file_id |-> file_info.id,
                                             file_name |-> file_info.name]},
                        !.written = IF ok THEN @ \cup {<<seg, file_info.name>>} ELSE @,
                        !.successful_downloads = good,
                        !.failed_downloads = bad,
                        !.file_i = IF more THEN @ + 1 ELSE 0,
                        !.total_downloaded = IF more THEN @ ELSE @ + good,
                        !.total_failed = IF more THEN @ ELSE @ + bad,
                        !.seg_i = IF more \/ @ = Len(SEGMENTS) THEN @ ELSE @ + 1,
                        !.pc = IF more THEN "files"
                               ELSE IF sched.seg_i = Len(SEGMENTS) THEN "complete"
                               ELSE "segment"]
    /\ UNCHANGED <<session_token, auth_header, store, remote, now, dated, gui, settings,
                   download_url, faults,
                   runs, pc, all_frame, seg_frame, last, requests, reported, previous, call,
                   probed>>

\* run_backup, lines 803-823: the result of a completed session.
RunBackupCompleted ==
    /\ sched.pc = "complete"
    /\ sched' = [sched EXCEPT !.success = TRUE, !.pc = "finished"]
    /\ UNCHANGED <<session_token, auth_header, store, remote, now, dated, gui, settings,
                   download_url,
                   scheduler_downloads,
                   faults, runs, pc, all_frame, seg_frame, last, requests, reported,
                   previous, call, probed>>

\* run_backup_job returns and the bot is dropped.  The relocation of the written
\* files by organize_files (lines 868-873) is not followed.
JobDone ==
    /\ sched.pc = "finished"
    /\ sched' = [sched EXCEPT !.pc = "idle"]
    /\ UNCHANGED <<session_token, auth_header, store, remote, now, dated, gui, settings,
                   download_url,
                   scheduler_downloads,
                   faults, runs, pc, all_frame, seg_frame, last, requests, reported,
                   previous, call, probed>>

\* The command line's login() and download_all_segments (main, lines
\* 1204-1220), while no scheduled job is running.
CliLogin == sched.pc = "idle" /\ Login
CliRun == sched.pc = "idle" /\ DownloadAllSegments

NextEntryPoints ==
    \/ CliLogin
    \/ CliRun
    \/ AccessAnswered
    \/ AccessRaised
    \/ Partition
    \/ SegmentStart
    \/ ProbeAnswered
    \/ ProbeFailed
    \/ DownloadStep
    \/ SegmentReturn
    \/ Collect
    \/ Finish
    \/ Exit
    \/ RunBackup
    \/ DownloadSegment
    \/ SchedulerDownloadFile
    \/ RunBackupCompleted
    \/ JobDone

SpecEntryPoints == InitCalls /\ [][NextEntryPoints]_vars

-----------------------------------------------------------------------------
(* get_file_date_directory on its own *)

\* get_file_date_directory(segment, filename), lines 579-625: the directory is
\* created and returned.
GetFileDateDirectory ==
    /\ pc = "idle"
    /\ ~dated.called
    /\ \E seg \in DateSegments, f \in DateInputs, clock \in DateClocks :
        \E path \in {get_file_date_directory(seg, f.name, clock)} :
            /\ dated' = [called |-> TRUE, segment |-> seg, input |-> f, clock |-> clock,
                         path |-> path]
            /\ dirs' = mkdir(dirs, path)
    /\ UNCHANGED <<session_token, auth_header, ledger, disk, remote, now, gui, settings,
                   download_url, sched,
                   scheduler_downloads, faults, runs, pc, all_frame, seg_frame, last,
                   requests, reported, previous, call, probed>>

NextDates == GetFileDateDirectory

SpecDates == Init /\ [][NextDates]_vars

-----------------------------------------------------------------------------
(* The GUI process: scheduler, manual triggers, download threads *)

bot == <<session_token, auth_header, store, faults, runs, pc, all_frame, seg_frame, last,
         requests, reported, previous, call, probed>>
others == <<remote, now, dated, sched, scheduler_downloads, settings,
          download_url>>

\* stop_scheduler, lines 733-750 (its wait for the cycle ends after at most
\* 300 s whether or not the cycle has finished).
stop_scheduler(g) ==
    [g EXCEPT !.stop_requested = TRUE, !.is_running = FALSE, !.job_scheduled = FALSE,
              !.midnight_scheduled = FALSE]

\* start_scheduler(interval), lines 646-673.
StartScheduler ==
    /\ gui' = [stop_scheduler(gui) EXCEPT
                  !.is_running = TRUE, !.stop_requested = FALSE, !.job_scheduled = TRUE,
                  !.midnight_scheduled = TRUE, !.cycles = FALSE]
    /\ UNCHANGED <<bot, others>>

\* stop_scheduler_clicked, lines 2120-2123.
StopScheduler ==
    /\ gui.is_running
    /\ gui' = stop_scheduler(gui)
    /\ UNCHANGED <<bot, others>>

\* The interval has elapsed: run_pending (line 678) runs _execute_job, lines
\* 684-694, and the schedule module cancels a job whose function returns
\* CancelJob.
ExecuteJob ==
    /\ gui.is_running
    /\ ~gui.stop_requested
    /\ gui.job_scheduled
    /\ gui' = IF gui.cycle_in_progress
              THEN [gui EXCEPT !.dropped = TRUE]
              ELSE [start_thread(gui, "worker") EXCEPT !.cycle_in_progress = TRUE,
                                                       !.job_scheduled = FALSE]
    /\ UNCHANGED <<bot, others>>

\* It is 00:00: run_pending runs _midnight_shutdown, lines 727-731.
MidnightShutdown ==
    /\ gui.is_running
    /\ ~gui.stop_requested
    /\ gui.midnight_scheduled
    /\ gui' = stop_scheduler(gui)
    /\ UNCHANGED <<bot, others>>

\* run_quick_download, lines 2097-2099: a thread is started whatever the flag.
RunQuickDownload ==
    /\ \E t \in ManualThreads :
        /\ gui.thread[t] = "none"
        /\ gui' = start_thread(gui, t)
    /\ UNCHANGED <<bot, others>>

\* manual_download_clicked, lines 2130-2135.
ManualDownloadClicked ==
    /\ \E t \in ManualThreads :
        /\ gui.thread[t] = "none"
        /\ gui' = IF ~gui.is_download_running
                  THEN start_thread(gui, t)
                  ELSE [gui EXCEPT !.dropped = TRUE]
    /\ UNCHANGED <<bot, others>>

\* execute_download returns result to thread t: the job worker is back at
\* line 705 with it, a manual thread ends.
returned_to(g, t, result) ==
    IF t = "worker"
    THEN [g EXCEPT !.thread[t] = "returned", !.callback = result]
    ELSE [g EXCEPT !.thread[t] = "none"]

\* Line 711: 'success' if result else 'error', for a dict.
session_row_status(result) == IF result.keys # {} THEN "success" ELSE "error"

\* _job_worker after its callback has returned: the session row of lines
\* 707-720 and the finally clause, lines 724-725.
JobWorkerEnd ==
    /\ gui.thread["worker"] = "returned"
    /\ gui' = [log_download_session(gui, "worker") EXCEPT
                  !.thread["worker"] = "none", !.cycle_in_progress = FALSE,
                  !.cycles = TRUE, !.row_status = session_row_status(gui.callback)]
    /\ UNCHANGED <<bot, others>>

\* Variant: the refused call leaves through the finally clause.
refused_resetting(g) == [g EXCEPT !.dropped = TRUE, !.is_download_running = FALSE]

\* Lines 1546-1548: the call is refused.
refused(g) == [g EXCEPT !.dropped = TRUE]

\* execute_download, lines 1546-1548: the test of is_download_running.
ExecuteDownloadGuard ==
    /\ \E t \in Threads :
        /\ gui.thread[t] = "guard"
        /\ gui' = IF gui.is_download_running
                  THEN returned_to(refused(gui), t, InProgressDict)
                  ELSE [gui EXCEPT !.thread[t] = "passed"]
    /\ UNCHANGED <<bot, others>>

\* execute_download, line 1550: the flag is set and the pipeline begins.
ExecuteDownloadBegin ==
    /\ \E t \in Threads :
        /\ gui.thread[t] = "passed"
        /\ gui' = [gui EXCEPT !.is_download_running = TRUE, !.thread[t] = "pipeline"]
    /\ UNCHANGED <<bot, others>>

\* execute_download, lines 1552-1711: the pipeline ends, with a result
\* (session row at line 1659) or an exception (session row at line 1700),
\* and the finally clause clears the flag.
ExecuteDownloadEnd ==
    /\ \E t \in Threads, result \in {CompletedDict, FailedDict} :
        /\ gui.thread[t] = "pipeline"
        /\ gui' = returned_to([log_download_session(gui, t) EXCEPT
                                  !.is_download_running = FALSE], t, result)
    /\ UNCHANGED <<bot, others>>

NextGui ==
    \/ StartScheduler
    \/ StopScheduler
    \/ ExecuteJob
    \/ MidnightShutdown
    \/ RunQuickDownload
    \/ ManualDownloadClicked
    \/ ExecuteDownloadGuard
    \/ ExecuteDownloadBegin
    \/ ExecuteDownloadEnd
    \/ JobWorkerEnd

SpecGui == Init /\ [][NextGui]_vars

-----------------------------------------------------------------------------
(* The scheduler's timer thread against stop_scheduler, statement by statement *)

\* start_scheduler, lines 646-667, called while no cycle is in progress and
\* the previous timer thread has ended: the flags, the interval job and the
\* new timer thread (timer: "loop" before the test of line 676, "pending"
\* between that test and run_pending, "exited" after the loop).
StartTimer ==
    /\ gui.timer \in {"none", "exited"}
    /\ gui.stop.pc \in {"none", "returned"}
    /\ ~gui.cycle_in_progress
    /\ gui' = [gui EXCEPT !.is_running = TRUE, !.stop_requested = FALSE,
                          !.job_scheduled = TRUE, !.timer = "loop", !.stop = NoStop]
    /\ UNCHANGED <<bot, others>>

\* _run_scheduler, line 676: the loop condition.
TimerTest ==
    /\ gui.timer = "loop"
    /\ gui' = [gui EXCEPT !.timer = IF gui.is_running /\ ~gui.stop_requested
                                    THEN "pending" ELSE "exited"]
    /\ UNCHANGED <<bot, others>>

\* _run_scheduler, lines 678-679: run_pending runs _execute_job (lines
\* 684-694) if the interval job is on the schedule and due.
TimerRunPending ==
    /\ gui.timer = "pending"
    /\ \E due \in BOOLEAN :
        gui' = IF due /\ gui.job_scheduled
               THEN IF gui.cycle_in_progress
                    THEN [gui EXCEPT !.timer = "loop", !.dropped = TRUE]
                    ELSE [start_thread(gui, "worker") EXCEPT
                             !.timer = "loop", !.cycle_in_progress = TRUE,
                             !.job_scheduled = FALSE]
               ELSE [gui EXCEPT !.timer = "loop"]
    /\ UNCHANGED <<bot, others>>

\* stop_scheduler(wait_for_cycle), lines 735-737, called by the GUI thread.
StopBegin ==
    /\ gui.timer # "none"
    /\ gui.stop.pc = "none"
    /\ \E wait_for_cycle \in BOOLEAN :
        gui' = [gui EXCEPT
                   !.stop_requested = TRUE,
                   !.stop = [pc |-> IF wait_for_cycle /\ gui.cycle_in_progress
                                    THEN "waiting" ELSE "teardown",
                             wait_for_cycle |-> wait_for_cycle,
                             waited |-> wait_for_cycle /\ gui.cycle_in_progress,
                             timed_out |-> FALSE]]
    /\ UNCHANGED <<bot, others>>

\* stop_scheduler, lines 743-744: the waiting loop ends, because the cycle
\* has finished or because 300 s have passed.
StopWaitEnds ==
    /\ gui.stop.pc = "waiting"
    /\ gui' = [gui EXCEPT !.stop.pc = "teardown",
                          !.stop.timed_out = gui.cycle_in_progress]
    /\ UNCHANGED <<bot, others>>

\* stop_scheduler, lines 746-747.
StopTeardown ==
    /\ gui.stop.pc = "teardown"
    /\ gui' = [gui EXCEPT !.is_running = FALSE, !.job_scheduled = FALSE,
                          !.midnight_scheduled = FALSE, !.stop.pc = "joining"]
    /\ UNCHANGED <<bot, others>>

\* stop_scheduler, lines 749-752: join(timeout=5) on the timer thread, which
\* returns when that thread has left its loop or after 5 s.
StopJoin ==
    /\ gui.stop.pc = "joining"
    /\ gui' = [gui EXCEPT !.stop.pc = "returned"]
    /\ UNCHANGED <<bot, others>>

NextStop ==
    \/ StartTimer
    \/ TimerTest
    \/ TimerRunPending
    \/ StopBegin
    \/ StopWaitEnds
    \/ StopTeardown
    \/ StopJoin
    \/ ExecuteDownloadGuard
    \/ ExecuteDownloadBegin
    \/ ExecuteDownloadEnd
    \/ JobWorkerEnd

SpecStop == InitCalls /\ [][NextStop]_vars

-----------------------------------------------------------------------------
(* execute_download of the GUI, step by step, with its bot *)

SelectedChoices == {<<>>, <<"CM">>, <<"SLB">>, <<"CM", "FO">>, <<"SLB", "CM">>}

HasSubstr(s, sub) == \E i \in 1..Len(s) : LitAt(s, i, sub)

\* strftime('%b') and str(current_date.day), lines 1721-1722
strftime_b(m) ==
    <<"Jan", "Feb", "Mar", "Apr", "May", "Jun", "Jul", "Aug", "Sep", "Oct", "Nov",
      "Dec">>[m]
str_day(d) == IF d < 10 THEN DigitStr[d + 1] ELSE Pad2(d)

\* Lines 1718-1722 and 1735: base_path / segment / year / month / day for
\* the current date.
organize_target(seg, clock) == <<seg, Str4(clock[1]), strftime_b(clock[2]), str_day(clock[3])>>

\* Variant: no file is moved.
move_segment_files_none(D, target_dir, seg) == D

\* move_segment_files, lines 1755-1788: every file below base_path whose name
\* contains the segment's code and that is not in target_dir is moved into
\* target_dir (rglob of line 1769, shutil.move of line 1773).
move_segment_files(D, target_dir, seg) ==
    LET moved == {e \in D : HasSubstr(e.name, seg) /\ e.dir # target_dir} IN
    {e \in D : e \notin moved /\ ~(e.dir = target_dir /\ \E x \in moved : x.name = e.name)}
        \cup {[x EXCEPT !.dir = target_dir] : x \in moved}

\* organize_downloaded_files, lines 1713-1753: the disk after the loop over
\* CM, FO and SLB.
organize_downloaded_files(D, clock) ==
    move_segment_files(
        move_segment_files(
            move_segment_files(D, organize_target("CM", clock), "CM"),
            organize_target("FO", clock), "FO"),
        organize_target("SLB", clock), "SLB")

\* Line 1649: the status of the session row.
session_status(errors, total_files) ==
    IF errors = 0 THEN "success"
    ELSE IF total_files > 0 THEN "partial_success" ELSE "error"

gui_frame == <<remote, now, dated, sched, scheduler_downloads, settings, download_url>>

\* Lines 1550-1568 for a thread that has passed the guard: the flag, the
\* selected segments ("No segments selected" ends the call through the
\* except clause of lines 1682-1706), and a new bot (lines 1577-1583).
ExecuteBegin ==
    /\ pc = "idle"
    /\ gui.run.pc = "none"
    /\ \E selected \in SelectedChoices :
        gui' = IF selected = <<>>
               THEN [log_download_session(gui, "manual1") EXCEPT
                        !.run = [NoRun EXCEPT !.pc = "returned", !.success = "false",
                                              !.status = "error"]]
               ELSE [gui EXCEPT !.is_download_running = TRUE,
                                !.run = [NoRun EXCEPT !.pc = "login", !.selected = selected]]
    /\ session_token' = ""
    /\ auth_header' = ""
    /\ pc' = "gui"
    /\ UNCHANGED <<store, faults, runs, all_frame, seg_frame, last, requests, reported,
                   previous, call, probed, gui_frame>>

\* Lines 1585-1587: bot.login(); "NSE login failed" ends the call through
\* the except clause.
ExecuteLogin ==
    /\ gui.run.pc = "login"
    /\ \E resp \in LoginResponses :
        LET token == login_token(resp) IN
        /\ session_token' = token
        /\ auth_header' = IF token # "" THEN "Bearer " \o token ELSE ""
        /\ gui' = IF token # ""
                  THEN [gui EXCEPT !.run.pc = "loop", !.run.i = 1]
                  ELSE [log_download_session(gui, "manual1") EXCEPT
                           !.is_download_running = FALSE,
                           !.run.pc = "returned", !.run.success = "false",
                           !.run.status = "error"]
    /\ UNCHANGED <<store, faults, runs, pc, all_frame, seg_frame, last, requests,
                   reported, previous, call, probed, gui_frame>>

\* Lines 1596-1606 and 1500: bot.download_segment_files(segment) for the next
\* selected segment.
ExecuteSegment ==
    /\ gui.run.pc = "loop"
    /\ gui.run.i <= Len(gui.run.selected)
    /\ segments' = <<gui.run.selected[gui.run.i]>>
    /\ accessible_segments' = <<gui.run.selected[gui.run.i]>>
    /\ seg_i' = 1
    /\ entry' = "segment"
    /\ pc' = "segment"
    /\ gui' = [gui EXCEPT !.run.pc = "segment"]
    /\ UNCHANGED <<session_token, auth_header, store, faults, runs, access_status,
                   response, overall_results, seg_frame, last, requests, reported,
                   previous, login_returned, probed, gui_frame>>

\* Lines 1608-1625: the segment's result goes into total_files or errors.
ExecuteCollect ==
    /\ gui.run.pc = "segment"
    /\ pc = "returned"
    /\ gui' = IF seg_result.success
              THEN [gui EXCEPT !.run.pc = "loop", !.run.i = @ + 1,
                               !.run.total_files = @ + seg_result.files_downloaded,
                               !.run.completed = @ + 1]
              ELSE [gui EXCEPT !.run.pc = "loop", !.run.i = @ + 1, !.run.errors = @ + 1]
    /\ pc' = "gui"
    /\ UNCHANGED <<session_token, auth_header, store, faults, runs, all_frame, seg_frame,
                   last, requests, reported, previous, call, probed, gui_frame>>

\* Lines 1634-1680 and 1708-1711: organize_downloaded_files, the session
\* row, the returned dict and the finally clause.
ExecuteFinish ==
    /\ gui.run.pc = "loop"
    /\ gui.run.i > Len(gui.run.selected)
    /\ disk' = organize_downloaded_files(disk, now)
    /\ dirs' = mkdir(mkdir(mkdir(dirs, organize_target("CM", now)),
                           organize_target("FO", now)), organize_target("SLB", now))
    /\ gui' = [log_download_session(gui, "manual1") EXCEPT
                  !.is_download_running = FALSE,
                  !.run.pc = "returned",
                  !.run.success = "true",
                  !.run.status = session_status(gui.run.errors, gui.run.total_files),
                  !.run.recorded = ledger,
                  !.run.before = disk]
    /\ UNCHANGED <<session_token, auth_header, ledger, faults, runs, pc, all_frame,
                   seg_frame, last, requests, reported, previous, call, probed, gui_frame>>

NextExecute ==
    \/ ExecuteBegin
    \/ ExecuteLogin
    \/ ExecuteSegment
    \/ ExecuteCollect
    \/ ExecuteFinish
    \/ SegmentStart
    \/ ProbeAnswered
    \/ ProbeFailed
    \/ DownloadStep
    \/ SegmentReturn
    \/ SegmentReturned
    \/ Login
    \/ DownloadAllSegments
    \/ AccessAnswered
    \/ AccessRaised
    \/ Partition
    \/ Collect
    \/ Finish

SpecExecute == InitCalls /\ [][NextExecute]_vars

-----------------------------------------------------------------------------
(* The date-partitioned layout, as its three builders compute it *)

\* NSEFileOrganizer.create_organized_structure: base_dir / segment / year /
\* month / day with strftime('%Y'), strftime('%b') and str(date.day).
create_organized_structure(seg, date) ==
    <<seg, Str4(date[1]), strftime_b(date[2]), str_day(date[3])>>

\* The days a layout is built for, and the names a file of such a day has.
LayoutYears == {2024}
DaysIn(m) == IF m = 2 THEN 29 ELSE IF m \in {4, 6, 9, 11} THEN 30 ELSE 31
LayoutDates ==
    {date \in {<<y, m, d>> : y \in LayoutYears, m \in 1..12, d \in 1..31} :
        date[3] <= DaysIn(date[2])}
LayoutKinds == {"trade", "order", "none"}
layout_digits(kind, date) ==
    CASE kind = "trade" -> Str4(date[1]) \o Pad2(date[2]) \o Pad2(date[3])
      [] kind = "order" -> Pad2(date[3]) \o Pad2(date[2]) \o Str4(date[1])
      [] OTHER -> ""
layout_name(kind, seg, date) ==
    CASE kind = "trade" ->
            "Trade_NSE_" \o seg \o "_0_TM_06471_" \o layout_digits(kind, date)
                \o "_F_0000.csv.gz"
      [] kind = "order" ->
            seg \o "_ORD_LOG_" \o layout_digits(kind, date) \o "_06471.CSV.gz"
      [] OTHER -> PlainFile

\* On the day `date`, a file of that day is given its directory by the bot,
\* by the scheduler's organizer and by the GUI's organizer.
BuildLayout ==
    /\ pc = "idle"
    /\ ~dated.called
    /\ \E seg \in {"CM", "FO", "SLB"}, kind \in LayoutKinds, date \in LayoutDates :
        \E name \in {layout_name(kind, seg, date)} :
            \E path \in {get_file_date_directory(seg, name, date)} :
                /\ dated' = [called |-> TRUE, segment |-> seg,
                             input |-> DateInput(name, kind, layout_digits(kind, date)),
                             clock |-> date, path |-> path,
                             scheduler |-> create_organized_structure(seg, date),
                             organizer |-> organize_target(seg, date)]
                /\ dirs' = mkdir(mkdir(dirs, path), create_organized_structure(seg, date))
    /\ UNCHANGED <<session_token, auth_header, ledger, disk, remote, now, gui, settings,
                   download_url, sched,
                   scheduler_downloads, faults, runs, pc, all_frame, seg_frame, last,
                   requests, reported, previous, call, probed>>

NextLayout == BuildLayout

SpecLayout == InitCalls /\ [][NextLayout]_vars

-----------------------------------------------------------------------------
(* Runs on different days *)

LaterClock == <<2024, 3, 8>>

\* Between two calls of the bot the date changes: datetime.now() (line 611)
\* is read anew by every get_file_date_directory call.
DayChange ==
    /\ pc = "idle"
    /\ now # LaterClock
    /\ now' = LaterClock
    /\ UNCHANGED <<bot, remote, dated, gui, sched, scheduler_downloads, settings,
          download_url>>

NextDays ==
    \/ NextCalls
    \/ DayChange

SpecDays == InitCalls /\ [][NextDays]_vars

-----------------------------------------------------------------------------
(* The download URL of download_file *)

\* download_file, lines 673-707, for a file that is not in the ledger: the
\* date parameter of the URL it requests.
BuildDownloadUrl ==
    /\ pc = "idle"
    /\ \E seg \in DateSegments, f \in UrlInputs :
        download_url' = [built |-> TRUE, segment |-> seg, input |-> f,
                         date |-> date_str(search_digits8(f.name))]
    /\ UNCHANGED <<bot, remote, now, dated, gui, sched, scheduler_downloads, settings>>

NextUrls == BuildDownloadUrl

SpecUrls == InitCalls /\ [][NextUrls]_vars

-----------------------------------------------------------------------------
(* The settings store: calls of set_setting and get_setting *)

unsettled == <<bot, remote, now, dated, gui, sched, scheduler_downloads, download_url>>

\* db_manager.set_setting(key, value, category)
SetSetting ==
    /\ \E key \in SettingKeys, value \in SettingValues, category \in SettingCategories,
          raised \in BOOLEAN :
        settings' = [settings EXCEPT
                        !.table = set_setting(@, key, value, category, raised),
                        !.written[key] = value,
                        !.set_raised[key] = raised]
    /\ UNCHANGED unsettled

\* db_manager.get_setting(key), default None
GetSetting ==
    /\ \E key \in SettingKeys, raised \in BOOLEAN :
        settings' = [settings EXCEPT
                        !.got = [key |-> key,
                                 value |-> get_setting(settings.table, key, PyNone, raised),
                                 raised |-> raised]]
    /\ UNCHANGED unsettled

NextSettings ==
    \/ SetSetting
    \/ GetSetting

SpecSettings == InitCalls /\ [][NextSettings]_vars

-----------------------------------------------------------------------------
(* Properties *)

\* A download_file call has been made in this run; last describes it.
Called == last.file_name # ""
FreshSuccess(r) == r.success /\ r.status # "already_downloaded"
SameKey(a, b) == a.file_id = b.file_id /\ a.segment = b.segment
FinalNamed(e) == ~endswith(e.name, ".tmp")

\* C1: idempotence of the pipeline.  A file that the run before reported
\* successful is, in the next run against the same listing, reported
\* already_downloaded, and its call appends no ledger entry.
C1_Idempotent ==
    (Called /\ <<last.segment, last.file_id>> \in previous)
        => (last.result.status = "already_downloaded" /\ last.appended = 0)

\* C1: a second run skips a file the first run downloaded.
C1_SecondRunSkips ==
    /\ runs = 2
    /\ Called
    /\ <<last.segment, last.file_id>> \in previous
    /\ last.result.status = "already_downloaded"
    /\ last.appended = 0

\* C2: whenever the ledger holds an entry for (file_id, segment) when
\* download_file is called, the call returns success with status
\* already_downloaded and size 0, issues no download request, writes no
\* file and appends no ledger entry.
C2_ShortCircuit ==
    (Called /\ last.had_entry)
        => /\ last.result.success
           /\ last.result.status = "already_downloaded"
           /\ last.result.size = 0
           /\ ~last.fetched
           /\ ~last.wrote
           /\ last.appended = 0

\* C2: a call that found the entry and short-circuited.
C2_Skipped ==
    /\ Called
    /\ last.had_entry
    /\ last.result.status = "already_downloaded"
    /\ ~last.fetched

\* C3: the ledger holds at most one entry for each (file_id, segment).
C3_AtMostOneEntry ==
    \A j, k \in 1..Len(ledger) : SameKey(ledger[j], ledger[k]) => j = k

\* C3: two recorded files, one entry each.
C3_TwoKeys ==
    /\ Len(ledger) = 2
    /\ ~SameKey(ledger[1], ledger[2])

\* C4: record_download is invoked exactly once by a download_file call that
\* ends as a fresh successful download, and not at all by a call that ends
\* as already_downloaded or as failed.
C4_RecordOnce ==
    Called => last.record_calls = (IF FreshSuccess(last.result) THEN 1 ELSE 0)

\* C4: a fresh download, recorded once.
C4_Recorded ==
    /\ Called
    /\ FreshSuccess(last.result)
    /\ last.record_calls = 1
    /\ last.appended = 1

\* C5: the ledger only grows.  Every step leaves the entries recorded so far
\* in place and unchanged.
C5_LedgerGrows ==
    [][/\ Len(ledger') >= Len(ledger)
       /\ SubSeq(ledger', 1, Len(ledger)) = ledger]_vars

\* C5: an entry was appended to a ledger that held one.
C5_Appended ==
    /\ Called
    /\ last.appended = 1
    /\ Len(ledger) >= 2

\* C6: atomic materialization.  No file with a final name (the original
\* filename or the decompressed filename) holds partial content.
C6_NoPartialFinal ==
    \A e \in disk : FinalNamed(e) => e.content # "partial"

\* C6: the write of the temp file failed and the temp file was removed.
C6_WriteFailureCleaned ==
    /\ Called
    /\ last.env.write = "fail"
    /\ ~last.result.success
    /\ \A e \in disk : FinalNamed(e)

\* C7: when download_all_segments returns, success is true exactly when
\* segments_completed > 0.
C7_SuccessIffCompleted ==
    pc = "done" =>
        (overall_results.success <=> overall_results.segments_completed > 0)

\* C7: a successful run in which a segment failed.
C7_OneOfSeveral ==
    /\ pc = "done"
    /\ overall_results.success
    /\ overall_results.segments_completed = 1
    /\ overall_results.segments_failed >= 1

RECURSIVE Total(_, _)
Total(S, f) ==
    IF S = {} THEN 0
    ELSE LET x == CHOOSE y \in S : TRUE IN f[x] + Total(S \ {x}, f)

Requested == {segments[k] : k \in 1..Len(segments)}
AccessDenied(s) == ~segment_access(remote[s].access)
EmptyListing(s) == remote[s].folder = ""

\* C8: partial-failure aggregation.  In the result of download_all_segments
\* (for a request naming each segment once) the file totals are the sums of
\* the per-segment counts over the segments that succeeded, the segment
\* counters count the succeeded and the failed segments, and a requested
\* segment that is access-denied or has an empty listing is failed and
\* contributes no files.
C8_Aggregation ==
    pc = "done" =>
        LET sr == overall_results.segment_results
            ok == {s \in DOMAIN sr : sr[s].success}
        IN /\ DOMAIN sr = Requested
           /\ overall_results.total_files_downloaded =
                  Total(ok, [s \in ok |-> sr[s].files_downloaded])
           /\ overall_results.total_files_failed =
                  Total(ok, [s \in ok |-> sr[s].files_failed])
           /\ overall_results.segments_completed = Cardinality(ok)
           /\ overall_results.segments_failed = Cardinality(DOMAIN sr \ ok)
           /\ \A s \in Requested :
                (AccessDenied(s) \/ EmptyListing(s))
                    => ~sr[s].success /\ sr[s].files_downloaded = 0

\* C8: CM succeeds with 2 files, FO is denied, SLB lists nothing.
C8_Example ==
    /\ pc = "done"
    /\ segments = <<"CM", "FO", "SLB">>
    /\ AccessDenied("FO")
    /\ EmptyListing("SLB") /\ ~AccessDenied("SLB")
    /\ overall_results.segment_results["CM"].success
    /\ overall_results.segment_results["CM"].files_downloaded = 2
    /\ overall_results.segment_results["SLB"].error = "No files found"
    /\ overall_results.segments_completed = 1
    /\ overall_results.segments_failed = 2
    /\ overall_results.total_files_downloaded = 2
    /\ overall_results.success

\* C9: every requested segment the access check found inaccessible is
\* recorded as failed with the error "No access to segment", and no listing
\* or download request is issued for it after the access check.
C9_Inaccessible ==
    pc = "done" =>
        \A s \in Requested :
            ~access_get(access_status, s)
                => /\ s \in DOMAIN overall_results.segment_results
                   /\ ~overall_results.segment_results[s].success
                   /\ overall_results.segment_results[s].error = "No access to segment"
                   /\ \A q \in requests : q.segment = s => q.kind = "access"

\* C9: an inaccessible segment beside an accessible one.
C9_Marked ==
    /\ pc = "done"
    /\ \E s \in Requested :
        /\ ~access_get(access_status, s)
        /\ overall_results.segment_results[s].error = "No access to segment"
    /\ \E s \in Requested : access_get(access_status, s)

\* The other shape of a known code: scalar for list, list for scalar.
KnownCode(code) == code.t \in {"str", "list1"} /\ code.v \in {"720", "704", "601"}
OtherShape(code) ==
    IF ~KnownCode(code) THEN code
    ELSE IF code.t = "str" THEN PyList1(code.v) ELSE PyStr(code.v)
Reshaped(resp) ==
    [resp EXCEPT !.code = OtherShape(@), !.responseCode = OtherShape(@)]
\* The segment whose answer is in response.
Probed == AccessSegments[Cardinality(DOMAIN access_status)]
Examined == pc \in {"access", "partition"} /\ response # NoResponse

\* C10: access-code tolerance.  The status check_segment_access records for
\* an answer is the one it gives the answer with its known code in the other
\* shape (scalar or single-element list); the denial codes 720 and 704, an
\* unknown code and a status other than 200 all give no access.
C10_CodeTolerance ==
    Examined =>
        LET code == PyOr(response.code, response.responseCode) IN
        /\ access_status[Probed] = segment_access(Reshaped(response))
        /\ (KnownCode(code) /\ code.v \in {"720", "704"}) => ~access_status[Probed]
        /\ ~KnownCode(code) => ~access_status[Probed]
        /\ response.http # 200 => ~access_status[Probed]

\* C10: access granted on the code 601 delivered as a single-element list.
C10_ListGranted ==
    /\ Examined
    /\ response.http = 200
    /\ response.code = PyList1("601")
    /\ access_status[Probed]

\* The entry point has returned to its caller.
Returned == pc \in {"done", "returned"}
FailureResult ==
    IF entry = "all"
    THEN ~overall_results.success /\ overall_results.total_files_downloaded = 0
    ELSE ~seg_result.success /\ seg_result.files_downloaded = 0

\* C11: no segment proceeds without a token.  Every listing and download
\* request of a run through download_all_segments or download_segment_files
\* carries a session token, and a run that returns without a token (no login
\* succeeded) has issued no request, fetched no file and returns a failure
\* result with zero files.
C11_TokenHeld ==
    /\ \A q \in requests : q.kind \in {"list", "download"} => q.bearer # ""
    /\ (Returned /\ session_token = "") =>
            /\ requests = {}
            /\ reported = {}
            /\ ~Called
            /\ FailureResult

\* C11: download_segment_files called without a token, its login failed.
C11_LoginFailed ==
    /\ pc = "returned"
    /\ session_token = ""
    /\ login_returned = "false"
    /\ seg_result.error = "Login failed"

\* C12: a failed login() leaves the session without a token.  Whenever the
\* latest login() of the bot returned false, session_token is unset and no
\* bearer header is installed.
C12_FailedLoginNoToken ==
    login_returned = "false" => (session_token = "" /\ auth_header = "")

\* C12: the latest login() returned false and the bot still holds the token
\* and the header of an earlier login.
C12_StaleToken ==
    /\ login_returned = "false"
    /\ session_token = "tok"
    /\ auth_header = "Bearer tok"

\* C13: login() returns true only with a token.  In the bot of
\* nse_backup_bot.py and in the bot of nse_scheduler.py, whenever the latest
\* login() returned true the stored session_token is a non-empty string.
C13_TrueOnlyWithToken ==
    /\ login_returned = "true" => session_token # ""
    /\ sched.login_returned = "true" =>
            (sched.session_token.t = "str" /\ sched.session_token.v # "")

\* C13: the login() of nse_scheduler.py returned true on a 'success' answer
\* without a token.
C13_TokenlessSuccess ==
    /\ sched.login_returned = "true"
    /\ sched.session_token = PyNone
    /\ sched.auth_header = "Bearer None"

\* What the answer to the k-th probe of this call yields.
Yield(k) == probe_path(probed[k].resp, probed[k].path)

\* C14: path discovery tie-break.  The probes of one get_file_list call go
\* through the candidates in their fixed order; every probe but the latest
\* yielded no acceptable file (no candidate is probed after a hit or after
\* an exception); the records the file loop works on are exactly those of
\* the latest probe, the first that yielded any, and each carries that
\* candidate's folder path.
C14_FirstHit ==
    /\ Len(probed) <= Len(possible_paths(segment))
    /\ \A k \in 1..Len(probed) : probed[k].path = possible_paths(segment)[k]
    /\ \A k \in 1..(Len(probed) - 1) : Yield(k).kind = "next"
    /\ pc = "files" =>
            /\ probed # <<>>
            /\ Yield(Len(probed)).kind = "hit"
            /\ files = Yield(Len(probed)).files
            /\ files # <<>>
            /\ \A f \in 1..Len(files) : files[f].folderPath = probed[Len(probed)].path
    /\ pc = "probe" => path_i = Len(probed) + 1

\* C14: a hit on a later candidate, after earlier ones answered without one.
C14_LaterHit ==
    /\ pc = "files"
    /\ Len(probed) > 2
    /\ probed[2].resp.http = 200

MonthAbbrevs == <<"Jan", "Feb", "Mar", "Apr", "May", "Jun", "Jul", "Aug", "Sep", "Oct",
                  "Nov", "Dec">>
\* The year, month and day texts the documented reading of the filename gives.
ReadDate(f, clock) ==
    CASE f.kind = "trade" ->
            <<SubSeq(f.digits, 1, 4), SubSeq(f.digits, 5, 6), SubSeq(f.digits, 7, 8)>>
      [] f.kind = "order" ->
            <<SubSeq(f.digits, 5, 8), SubSeq(f.digits, 3, 4), SubSeq(f.digits, 1, 2)>>
      [] OTHER -> <<Str4(clock[1]), Pad2(clock[2]), Pad2(clock[3])>>

\* C15: date derivation.  The directory get_file_date_directory returns has
\* the year and the day of the trade-log digits read as YYYYMMDD when the
\* filename shows the trade-log pattern, else of the order-log digits read as
\* DDMMYYYY when it shows the order-log pattern, else of the current date;
\* a month 01..12 appears as its abbreviation; and the two filenames of the
\* specification both give 2024 / Jan / 15.
C15_DateDerivation ==
    dated.called =>
        LET d == ReadDate(dated.input, dated.clock) IN
        /\ Len(dated.path) = 4
        /\ dated.path[2] = d[1]
        /\ dated.path[4] = d[3]
        /\ \A k \in 1..12 : d[2] = Pad2(k) => dated.path[3] = MonthAbbrevs[k]
        /\ dated.input.name \in {"Trade_NSE_CM_0_TM_06471_20240115_F_0000.csv.gz",
                                  "CM_ORD_LOG_15012024_06471.CSV.gz"}
                => dated.path = <<dated.segment, "2024", "Jan", "15">>

\* C15: a filename that shows both patterns was filed by its trade-log date.
C15_TradeFirst ==
    /\ dated.called
    /\ dated.input.name = "Trade_NSE_FO_0_TM_06471_20231231_ORD_LOG_01022024_F.csv"
    /\ dated.path = <<dated.segment, "2023", "Dec", "31">>

\* C16: the shape of the destination.  For every segment and filename the
\* directory is segment / year / month / day with the month one of the
\* twelve abbreviations.
C16_MonthAbbrev ==
    dated.called =>
        /\ Len(dated.path) = 4
        /\ dated.path[1] = dated.segment
        /\ \E k \in 1..12 : dated.path[3] = MonthAbbrevs[k]

\* C16: a filename whose digits give the month 13 was filed under "13".
C16_NumericMonth ==
    /\ dated.called
    /\ dated.input.name = "Trade_NSE_CM_0_TM_06471_20241315_F_0000.csv.gz"
    /\ dated.path = <<dated.segment, "2024", "13", "15">>

\* The threads whose pipeline execution is in flight.
InFlight == {t \in Threads : gui.thread[t] = "pipeline"}

\* C17: at most one pipeline execution is in flight in the GUI process,
\* whatever the interleaving of the timer thread, the job worker and the
\* manually started threads.
C17_AtMostOne == Cardinality(InFlight) <= 1

\* C17: a trigger that arrived during a pipeline execution has been dropped.
C17_Dropped ==
    /\ gui.dropped
    /\ Cardinality(InFlight) = 1
    /\ \A t \in Threads \ InFlight : gui.thread[t] = "none"

\* The invocations that have returned to their thread's caller.
Completed == {t \in gui.invoked : gui.thread[t] = "none"}

\* C21: every orchestration invocation that has completed, manual or
\* scheduled, has appended exactly one session row to the run history:
\* never zero, never two.
C21_OneSessionRow ==
    \A t \in Completed : gui.run_history[t] = 1

\* C21: a scheduled invocation has completed with two session rows, and a
\* manual invocation has completed with none.
C21_TwoRowsAndNone ==
    /\ "worker" \in Completed
    /\ gui.run_history["worker"] = 2
    /\ \E t \in ManualThreads \cap Completed : gui.run_history[t] = 0

C23_EveryFileAttempted ==
    /\ pc = "files" =>
            /\ file_i \in 1..(Len(files) + 1)
            /\ successful_downloads + failed_downloads = file_i - 1
            /\ file_i > 1 => /\ last.file_id = files[file_i - 1].id
                             /\ last.segment = segment
    /\ (pc \in {"collect", "returned"} /\ seg_result.success) =>
            seg_result.files_downloaded + seg_result.files_failed = Len(files)

\* C23: the first file of a listing of two failed, the second was attempted
\* all the same and downloaded, and the segment result is a success.
C23_FailureThenSuccess ==
    /\ pc \in {"collect", "returned"}
    /\ seg_result.success
    /\ Len(files) = 2
    /\ seg_result.files_failed = 1
    /\ seg_result.files_downloaded = 1
    /\ last.file_id = files[2].id
    /\ last.result.success

\* C24: a failure to compute the checksum of the final file makes the
\* file's result a failure, and no ledger entry is recorded for it.
C24_ChecksumFailureFails ==
    last.env.checksum = "fail" => (~last.result.success /\ last.appended = 0)

\* C24: the checksum could not be computed, and the call has returned
\* success with an empty checksum, recorded a ledger entry with that empty
\* checksum, and been counted as a successful download.
C24_RecordedWithoutChecksum ==
    /\ pc = "files"
    /\ last.env.checksum = "fail"
    /\ last.result.success
    /\ last.result.checksum = ""
    /\ last.appended = 1
    /\ ledger[Len(ledger)].checksum = ""
    /\ ledger[Len(ledger)].file_id = last.file_id
    /\ successful_downloads = 1
    /\ failed_downloads = 0

\* C25: download_file consults the ledger first.  A call that returns
\* already_downloaded has created no directory, written no file and issued
\* no download request.
C25_LedgerFirst ==
    last.result.status = "already_downloaded" =>
        (~last.made_dirs /\ ~last.fetched /\ ~last.wrote)

\* C25: the ledger held the file's entry, the call returned
\* already_downloaded, and it has created the day's directory, which holds
\* no file.
C25_DirectoryForSkippedFile ==
    /\ last.had_entry
    /\ last.result.status = "already_downloaded"
    /\ last.made_dirs
    /\ get_file_date_directory(last.segment, last.file_name, now) \in dirs
    /\ \A f \in disk : f.dir # get_file_date_directory(last.segment, last.file_name, now)

\* Where the latest download_file call files its file.
TargetDir == get_file_date_directory(last.segment, last.file_name, now)

\* C26: decompression-failure path.  When the body of a .gz file could not
\* be decompressed (and the rename and the ledger insert that follow did
\* not fail in turn), the .tmp file has become the file of the original
\* name with the fetched bytes, the call has returned success with
\* file_path naming that file, and one ledger entry has been recorded for it.
C26_KeptCompressed ==
    (last.env.gunzip # "ok" /\ last.env.rename = "ok" /\ last.env.record = "ok") =>
        /\ last.result.success
        /\ last.result.status = ""
        /\ last.result.file_path = [dir |-> TargetDir, name |-> last.file_name]
        /\ [dir |-> TargetDir, name |-> last.file_name, content |-> "bytes"] \in disk
        /\ ~fs_exists(disk, TargetDir, last.file_name \o ".tmp")
        /\ last.record_calls = 1
        /\ last.appended = 1
        /\ ledger[Len(ledger)].file_id = last.file_id
        /\ ledger[Len(ledger)].file_path = last.result.file_path

\* C26: the body of a .gz file was fetched and gzip could not read it; the
\* call has returned success for the file under its original name.
C26_UnreadableBody ==
    /\ last.env.gunzip = "bad"
    /\ endswith(last.file_name, ".gz")
    /\ last.fetched
    /\ last.result.success
    /\ last.result.file_path.name = last.file_name
    /\ last.appended = 1

\* C27: whenever download_file has returned, with any outcome, the file
\* {name}.tmp does not exist in the destination directory.
C27_NoTempLeft ==
    last.file_name # "" => ~fs_exists(disk, TargetDir, last.file_name \o ".tmp")

\* C27: the decompressed sibling was written, removing the temp file
\* failed, and the call has returned success with {name}.tmp still in the
\* destination directory beside the sibling.
C27_TempBesideSibling ==
    /\ last.env.unlink = "fail"
    /\ last.result.success
    /\ endswith(last.file_name, ".gz")
    /\ last.result.file_path.name = SubSeq(last.file_name, 1, Len(last.file_name) - 3)
    /\ fs_exists(disk, TargetDir, last.result.file_path.name)
    /\ [dir |-> TargetDir, name |-> last.file_name \o ".tmp", content |-> "bytes"] \in disk

\* C28: a ledger write failure is swallowed, at-least-once.  When the
\* insert of record_download has failed after a fetch, the call has returned
\* success and the ledger has not changed; and a call for a file that the
\* previous run reported downloaded but that has no ledger entry fetches
\* the file again and does not report already_downloaded.
C28_SwallowedThenRefetched ==
    /\ last.env.record = "error" =>
            /\ last.fetched
            /\ last.result.success
            /\ last.result.status = ""
            /\ last.record_calls = 1
            /\ last.appended = 0
    /\ (<<last.segment, last.file_id>> \in previous /\ ~last.had_entry
            /\ last.env.mkdir = "ok") =>
            /\ last.fetched
            /\ last.result.status # "already_downloaded"

\* C28: the previous run reported the file downloaded without a ledger
\* entry being written; this run has fetched it again and recorded it.
C28_FetchedAgain ==
    /\ <<last.segment, last.file_id>> \in previous
    /\ ~last.had_entry
    /\ last.env = NominalEnv
    /\ last.fetched
    /\ last.result.success
    /\ last.appended = 1

\* get_file_list has returned the empty list to download_segment_files.
EmptyList == pc = "collect" /\ ~seg_result.success /\ seg_result.error = "No files found"

\* C29: get_file_list returns an empty list only after every candidate
\* path has been probed, none of them yielding an acceptable file.
C29_AllCandidatesProbed ==
    EmptyList =>
        /\ Len(probed) = Len(possible_paths(segment))
        /\ \A k \in 1..Len(probed) :
                /\ probed[k].path = possible_paths(segment)[k]
                /\ Yield(k).kind = "next"

\* C29: the request for the first candidate raised, and get_file_list has
\* returned the empty list without probing the candidate that holds the
\* segment's files.
C29_GaveUpAtFirstCandidate ==
    /\ EmptyList
    /\ segment = "FO"
    /\ remote["FO"] = Stocked("FO")
    /\ Len(probed) = 1
    /\ probed[1].resp.exc
    /\ \A k \in 1..Len(probed) : probed[k].path # remote["FO"].folder

\* The number a text of two or four digits denotes, by place value.
Number(s) ==
    IF Len(s) = 2 THEN 10 * digit(Char(s, 1)) + digit(Char(s, 2))
    ELSE 1000 * digit(Char(s, 1)) + 100 * digit(Char(s, 2))
            + 10 * digit(Char(s, 3)) + digit(Char(s, 4))

\* day-month-year as DD-MM-YYYY
DashDate(day, month, year) == Pad2(day) \o "-" \o Pad2(month) \o "-" \o Str4(year)

\* The documented heuristic for the first eight digits d of a filename.
HeuristicDate(d) ==
    IF d = "" THEN ""
    ELSE IF Number(SubSeq(d, 1, 2)) <= 31 /\ Number(SubSeq(d, 3, 4)) <= 12
    THEN DashDate(Number(SubSeq(d, 1, 2)), Number(SubSeq(d, 3, 4)), Number(SubSeq(d, 5, 8)))
    ELSE IF Number(SubSeq(d, 1, 4)) >= 2000
    THEN DashDate(Number(SubSeq(d, 7, 8)), Number(SubSeq(d, 5, 6)), Number(SubSeq(d, 1, 4)))
    ELSE ""

\* C30: download-URL date heuristic.  The date parameter download_file
\* sends is the first eight digits of the filename read as DDMMYYYY when
\* the first two are at most 31 and the next two at most 12, otherwise read
\* as YYYYMMDD when the first four are at least 2000, always written
\* DD-MM-YYYY; there is no date parameter when neither holds or the
\* filename has no eight consecutive digits.
C30_DateHeuristic ==
    download_url.built => download_url.date = HeuristicDate(download_url.input.digits)

\* C30: a trade file's YYYYMMDD digits have been sent as DD-MM-YYYY.
C30_YearFirstSent ==
    /\ download_url.built
    /\ download_url.input.name = TradeFile
    /\ download_url.date = "15-01-2024"

\* C18: the scheduler repeats the cycle.  While the scheduler is started and
\* no stop has been requested, the interval job stays on the schedule, so
\* that the next interval triggers it again.
C18_StillScheduled ==
    (gui.is_running /\ ~gui.stop_requested) => gui.job_scheduled

\* C18: the first cycle has completed, the scheduler has not been stopped
\* and nothing is left to trigger another cycle.
C18_OneCycleOnly ==
    /\ gui.is_running
    /\ ~gui.stop_requested
    /\ gui.cycles
    /\ ~gui.cycle_in_progress
    /\ ~gui.job_scheduled

\* A dict with 'success', and with an 'error' text when success is false.
Structured(r) == r.success \in BOOLEAN /\ (~r.success => r.error # "")

SameFile(a, b) == a.segment = b.segment /\ a.file_name = b.file_name

\* C20: deduplication across entry points.  A scheduled run issues no
\* download request for a file that a command-line run has recorded in the
\* ledger, and a command-line run issues none for a file that a scheduled
\* run has recorded.
C20_NoRefetch ==
    /\ sched.pc # "idle" =>
            \A k \in 1..Len(ledger) : \A f \in sched.fetched : ~SameFile(ledger[k], f)
    /\ (pc # "idle" /\ Called /\ last.fetched) =>
            \A k \in 1..Len(scheduler_downloads) : ~SameFile(scheduler_downloads[k], last)

\* C20: a scheduled run has requested the trade file of CM again although the
\* ledger holds its record.
C20_FetchedAgain ==
    /\ sched.pc = "files"
    /\ \E k \in 1..Len(ledger) :
            /\ ledger[k].file_name = TradeFile
            /\ \E f \in sched.fetched : SameFile(ledger[k], f)

\* C31: stop waits for the in-flight cycle.  Once stop_scheduler has
\* returned, and until start_scheduler is called again, no cycle is in
\* progress if it was called with wait_for_cycle=True and its waiting loop
\* did not end by the timeout; called with wait_for_cycle=False it has not
\* waited.
C31_StoppedMeansIdle ==
    gui.stop.pc = "returned" =>
        /\ (gui.stop.wait_for_cycle /\ ~gui.stop.timed_out) =>
                (~gui.cycle_in_progress /\ gui.thread["worker"] = "none")
        /\ ~gui.stop.wait_for_cycle => ~gui.stop.waited

\* C31: stop_scheduler(wait_for_cycle=True) has returned without having
\* waited at all, and the cycle that the timer thread started meanwhile is
\* running its pipeline.
C31_CycleAfterStop ==
    /\ gui.stop.pc = "returned"
    /\ gui.stop.wait_for_cycle
    /\ ~gui.stop.waited
    /\ ~gui.is_running
    /\ gui.cycle_in_progress
    /\ gui.thread["worker"] = "pipeline"

\* C32: a run in which no segment succeeds is reported as a failure by
\* every entry point.  download_all_segments returns success=false, and
\* execute_download returns success=false and writes its session row with
\* status error.
C32_NoSegmentNoSuccess ==
    /\ (pc = "done" /\ overall_results.segments_completed = 0) => ~overall_results.success
    /\ (gui.run.pc = "returned" /\ gui.run.completed = 0) =>
            (gui.run.success = "false" /\ gui.run.status = "error")

\* C32: the bot logged in, each selected segment's result was a failure,
\* and execute_download has written a session row with status error and
\* returned success=true.
C32_SuccessWithoutSegment ==
    /\ gui.run.pc = "returned"
    /\ gui.run.selected = <<"SLB", "CM">>
    /\ gui.run.completed = 0
    /\ gui.run.errors = 2
    /\ gui.run.status = "error"
    /\ gui.run.success = "true"

\* C33: in every result of download_all_segments, segments_completed plus
\* segments_failed is the number of requested segments, and the per-segment
\* result map has an entry for exactly the requested segments.
C33_EverySegmentCounted ==
    pc = "done" =>
        /\ overall_results.segments_completed + overall_results.segments_failed
                = Len(segments)
        /\ DOMAIN overall_results.segment_results = Requested

\* C33: download_all_segments has returned for three requested segments
\* without a session token.
C33_NotLoggedIn ==
    /\ pc = "done"
    /\ session_token = ""
    /\ Len(segments) = 3
    /\ overall_results.segments_failed = 3
    /\ DOMAIN overall_results.segment_results = {"CM", "FO", "SLB"}

\* The download requests issued for the segment being processed.
Fetches == {q \in requests : q.kind = "download" /\ q.segment = segment}

\* C34: files_downloaded counts only files whose bytes were fetched in this
\* run.  As long as no download request has been issued for the segment, its
\* downloaded count and its size are zero.
C34_SkippedNotCounted ==
    (pc \in {"files", "collect"} /\ Fetches = {}) =>
        (successful_downloads = 0 /\ total_size = 0)

\* C34: both files of the listing were skipped as already downloaded, no
\* download request was issued, and the segment's result reports two files
\* downloaded with size zero.
C34_SkippedCounted ==
    /\ pc = "collect"
    /\ Fetches = {}
    /\ Len(files) = 2
    /\ last.result.status = "already_downloaded"
    /\ seg_result.success
    /\ seg_result.files_downloaded = 2
    /\ seg_result.total_size_mb = 0

\* The date parameter that denotes the day <<year, month, day>>.
UrlDay(parts) == parts[3] \o "-" \o parts[2] \o "-" \o parts[1]

\* The filename matches one of the two patterns of get_file_date_directory.
MatchesOrganizer(name) == match1(name) # "" \/ match2(name) # ""

\* C35: for a filename that matches one of the two organizer patterns, the
\* date parameter of the download URL denotes the day of the directory the
\* file is stored in.
C35_UrlDayIsDirectoryDay ==
    (download_url.built /\ MatchesOrganizer(download_url.input.name)) =>
        download_url.date = UrlDay(extract_date(download_url.input.name, now))

\* C35: a trade file of 15 January 2012 is stored under 2012/Jan/15 and
\* requested with the date 20-12-0115.
C35_TradeFileOf2012 ==
    /\ download_url.built
    /\ download_url.segment = "CM"
    /\ match1(download_url.input.name) = "20120115"
    /\ get_file_date_directory("CM", download_url.input.name, now)
            = <<"CM", "2012", "Jan", "15">>
    /\ download_url.date = "20-12-0115"

\* The ledger entries whose file was at its file_path on the disk D.
Kept(L, D) ==
    {k \in 1..Len(L) : fs_exists(D, L[k].file_path.dir, L[k].file_path.name)}

\* C36: after execute_download has completed, every file the ledger records
\* is still at the file_path of its entry: the organize step that follows
\* the downloads has moved none of them.
C36_LedgerPathsSurvive ==
    gui.run.pc = "returned" /\ gui.run.success = "true" =>
        Kept(gui.run.recorded, gui.run.before) \subseteq Kept(gui.run.recorded, disk)

\* C36: execute_download has completed; a file recorded during the run at
\* the directory of the date in its name was there before the organize
\* step, and is now in the directory of the day of the run instead.
C36_MovedToToday ==
    /\ gui.run.pc = "returned"
    /\ gui.run.success = "true"
    /\ \E k \in 1..Len(ledger) :
        /\ ledger[k].file_path.dir = <<"FO", "2024", "Jan", "15">>
        /\ fs_exists(gui.run.before, ledger[k].file_path.dir, ledger[k].file_path.name)
        /\ ~fs_exists(disk, ledger[k].file_path.dir, ledger[k].file_path.name)
        /\ fs_exists(disk, <<"FO", "2024", "Mar", "7">>, ledger[k].file_path.name)

\* C37: the three builders of the date-partitioned layout agree.  For the
\* same segment and the same calendar date the bot's directory, the
\* scheduler's and the GUI organizer's are the same path.
C37_LayoutsAgree ==
    dated.called =>
        /\ dated.path = dated.scheduler
        /\ dated.path = dated.organizer

\* C37: for 7 March 2024 the bot's directory ends in Mar/07 while the
\* scheduler's and the GUI organizer's end in Mar/7.
C37_PaddedDay ==
    /\ dated.called
    /\ dated.clock = <<2024, 3, 7>>
    /\ dated.input.kind = "trade"
    /\ dated.path = <<dated.segment, "2024", "Mar", "07">>
    /\ dated.scheduler = <<dated.segment, "2024", "Mar", "7">>
    /\ dated.organizer = dated.scheduler

\* C38: the job worker records a scheduled cycle with status success only
\* if the pipeline callback succeeded.
C38_SuccessRowMeansSuccess ==
    gui.row_status = "success" => gui.callback.success

\* C38: the worker's trigger was rejected because a download was in
\* progress, and the worker has recorded the cycle with status success.
C38_RejectedRecordedAsSuccess ==
    /\ gui.thread["worker"] = "none"
    /\ gui.callback = InProgressDict
    /\ gui.row_status = "success"
    /\ gui.run_history["worker"] = 1

\* Thread t's execute_download call is refused in this step.
Refusal(t) ==
    /\ gui.thread[t] = "guard"
    /\ gui.is_download_running
    /\ gui'.thread[t] \in {"none", "returned"}

\* An execute_download call that had set the flag returns in this step.
ExecutionEnds == \E t \in Threads : gui.thread[t] = "pipeline" /\ gui'.thread[t] # "pipeline"

\* C39: a refused re-entrant execute_download call changes nothing: it
\* leaves is_download_running true, appends no run-history record and
\* touches no file and no ledger entry; and the flag goes from true to false
\* only in a step in which a running execution finishes.
C39_RefusalChangesNothing ==
    [][/\ \A t \in Threads :
            Refusal(t) =>
                /\ gui'.is_download_running
                /\ gui'.run_history = gui.run_history
                /\ UNCHANGED <<ledger, disk, dirs>>
       /\ (gui.is_download_running /\ ~gui'.is_download_running) => ExecutionEnds]_vars

\* C39: the job worker's call has been refused while a manual thread's
\* execution is running; the flag is still set and no row has been written
\* for the worker.
C39_RefusedWhileRunning ==
    /\ gui.thread["worker"] = "returned"
    /\ gui.callback = InProgressDict
    /\ gui.thread["manual1"] = "pipeline"
    /\ gui.thread["manual2"] = "none"
    /\ gui.is_download_running
    /\ gui.run_history["worker"] = 0

====
